---- MODULE Spec2Model ----
(***************************************************************************)
(* Model of SearchCenter: the result aggregator                            *)
(* (src/src/services/searchService.ts), the filters and results state of   *)
(* the app (src/src/App.tsx) and the result list with its highlight engine *)
(* (src/src/components/ResultsList.tsx).                                   *)
(*                                                                         *)
(* A string is a sequence of one-character strings, so that trim, split,   *)
(* join, toLowerCase, includes and the regular expressions the program     *)
(* compiles are computed as the JavaScript runtime computes them.          *)
(***************************************************************************)
EXTENDS Integers, Sequences, FiniteSets, TLC

(***************************************************************************)
(* Bounds of the model.                                                    *)
(***************************************************************************)
\* longest file, in lines, the content endpoint returns
MaxLines == 11
\* most items a repository search response holds
MaxRepos == 4
\* most items a code search response holds
MaxCode == 2
\* most results a search of the display model returns
MaxShown == 3
\* most rows, lines and separators, of a snippet the highlight engine renders
MaxRows == 5
\* the calls of handleSearch started in a run
MaxSearches == 2
\* the rows of the search_history table
MaxHistory == 2
\* the rows of the users table
MaxUsers == 2
\* the rows of the feedback table
MaxFeedback == 3
\* the requests sent to the feedback table
MaxRequests == 3
\* the runs of the effects that create the user row
MaxRuns == 3
\* the rows of the notifications table when the component mounts
MaxStored == 11
\* the calls of fetchNotifications
MaxFetches == 2
\* the rows inserted into the notifications table while it is mounted
MaxInserts == 1
\* the calls of markAsRead and markAllAsRead
MaxReads == 1

(***************************************************************************)
(* JavaScript string primitives.                                           *)
(***************************************************************************)
Min(a, b) == IF a <= b THEN a ELSE b
Max(a, b) == IF a >= b THEN a ELSE b

\* the characters \s matches, among those the model uses
IsSpace(c) == c \in {" ", "\n", "\t"}

\* String.prototype.toLowerCase, one character (the capitals of the model)
LowerChar(c) ==
    CASE c = "A" -> "a"
      [] c = "B" -> "b"
      [] c = "C" -> "c"
      [] c = "G" -> "g"
      [] c = "N" -> "n"
      [] c = "O" -> "o"
      [] c = "X" -> "x"
      [] OTHER -> c

toLowerCase(s) == [i \in 1..Len(s) |-> LowerChar(s[i])]

\* String.prototype.trim
RECURSIVE TrimStart(_)
TrimStart(s) ==
    IF s # <<>> /\ IsSpace(s[1]) THEN TrimStart(Tail(s)) ELSE s

RECURSIVE TrimEnd(_)
TrimEnd(s) ==
    IF s # <<>> /\ IsSpace(s[Len(s)]) THEN TrimEnd(SubSeq(s, 1, Len(s) - 1)) ELSE s

trim(s) == TrimEnd(TrimStart(s))

\* String.prototype.split('\n'): always at least one piece
RECURSIVE SplitNL(_)
SplitNL(s) ==
    IF \A i \in 1..Len(s) : s[i] # "\n"
    THEN <<s>>
    ELSE LET i == CHOOSE j \in 1..Len(s) :
                      s[j] = "\n" /\ \A k \in 1..(j - 1) : s[k] # "\n"
         IN  <<SubSeq(s, 1, i - 1)>> \o SplitNL(SubSeq(s, i + 1, Len(s)))

\* String.prototype.split(/\s+/): pieces between maximal runs of whitespace;
\* a leading or trailing run leaves an empty piece
RECURSIVE SplitWS(_)
SplitWS(s) ==
    IF \A i \in 1..Len(s) : ~IsSpace(s[i])
    THEN <<s>>
    ELSE LET i == CHOOSE j \in 1..Len(s) :
                      IsSpace(s[j]) /\ \A k \in 1..(j - 1) : ~IsSpace(s[k])
             rest == TrimStart(SubSeq(s, i, Len(s)))
         IN  <<SubSeq(s, 1, i - 1)>> \o SplitWS(rest)

\* Array.prototype.join(sep)
RECURSIVE Join(_, _)
Join(parts, sep) ==
    IF parts = <<>> THEN <<>>
    ELSE IF Len(parts) = 1 THEN parts[1]
    ELSE parts[1] \o sep \o Join(Tail(parts), sep)

\* String.prototype.includes
includes(s, t) ==
    \E p \in 0..(Len(s) - Len(t)) : SubSeq(s, p + 1, p + Len(t)) = t

(***************************************************************************)
(* Regular expressions, for the patterns the program builds from the       *)
(* characters of the model: literals, \-escapes of special characters,     *)
(* the \b assertion, the + quantifier, and (...)|(...) alternations of     *)
(* groups that hold no quantified group.                                   *)
(***************************************************************************)
\* the characters of \w
WordChars ==
    {"a", "b", "c", "d", "e", "f", "g", "h", "i", "j", "k", "l", "m", "n", "o", "p",
     "q", "r", "s", "t", "u", "v", "w", "x", "y", "z",
     "A", "B", "C", "D", "E", "F", "G", "H", "I", "J", "K", "L", "M", "N", "O", "P",
     "Q", "R", "S", "T", "U", "V", "W", "X", "Y", "Z",
     "0", "1", "2", "3", "4", "5", "6", "7", "8", "9", "_"}

\* the atom of the assertion \b, and whether it holds before text[pos]
WordBoundary == "\\b"
AtWordBoundary(text, pos) ==
    (pos > 1 /\ text[pos - 1] \in WordChars) # (pos <= Len(text) /\ text[pos] \in WordChars)

\* the class [.*+?^${}()|[\]\\] of the escaping replace
RegexSpecial == {".", "*", "+", "?", "^", "$", "{", "}", "(", ")", "|", "[", "]", "\\"}

\* term.replace(/[.*+?^${}()|[\]\\]/g, '\\$&')
RECURSIVE escapeRegExp(_)
escapeRegExp(t) ==
    IF t = <<>> THEN <<>>
    ELSE IF t[1] \in RegexSpecial THEN <<"\\", t[1]>> \o escapeRegExp(Tail(t))
    ELSE <<t[1]>> \o escapeRegExp(Tail(t))

RegexError == [ok |-> FALSE, alts |-> <<>>]

\* new RegExp(src): the alternatives, each a sequence of atoms [ch, plus];
\* ok = FALSE is the SyntaxError the constructor throws
RECURSIVE RegexParse(_, _, _, _, _)
RegexParse(s, i, cur, alts, depth) ==
    IF i > Len(s)
    THEN IF depth = 0 THEN [ok |-> TRUE, alts |-> Append(alts, cur)] ELSE RegexError
    ELSE LET c == s[i] IN
         CASE c = "|" -> RegexParse(s, i + 1, <<>>, Append(alts, cur), depth)
           [] c = "(" -> RegexParse(s, i + 1, cur, alts, depth + 1)
           [] c = ")" -> IF depth = 0 THEN RegexError
                         ELSE RegexParse(s, i + 1, cur, alts, depth - 1)
           [] c \in {"+", "*", "?"} -> RegexError   \* nothing to repeat
           [] c = "\\" ->
                IF i = Len(s) THEN RegexError       \* \ at end of pattern
                ELSE IF s[i + 1] = "b"
                THEN IF i + 2 <= Len(s) /\ s[i + 2] = "+"
                     THEN RegexError                \* nothing to repeat
                     ELSE RegexParse(s, i + 2,
                                     Append(cur, [ch |-> WordBoundary, plus |-> FALSE]),
                                     alts, depth)
                ELSE IF i + 2 <= Len(s) /\ s[i + 2] = "+"
                THEN RegexParse(s, i + 3, Append(cur, [ch |-> s[i + 1], plus |-> TRUE]),
                                alts, depth)
                ELSE RegexParse(s, i + 2, Append(cur, [ch |-> s[i + 1], plus |-> FALSE]),
                                alts, depth)
           [] OTHER ->
                IF i + 1 <= Len(s) /\ s[i + 1] = "+"
                THEN RegexParse(s, i + 2, Append(cur, [ch |-> c, plus |-> TRUE]), alts, depth)
                ELSE RegexParse(s, i + 1, Append(cur, [ch |-> c, plus |-> FALSE]), alts, depth)

\* new RegExp(src, flags); ignoreCase is the i flag
RegExp(src, ignoreCase) ==
    LET p == RegexParse(src, 1, <<>>, <<>>, 0)
    IN  [ok |-> p.ok, alts |-> p.alts, ignoreCase |-> ignoreCase]

CharMatches(a, c, ignoreCase) ==
    IF ignoreCase THEN LowerChar(a.ch) = LowerChar(c) ELSE a.ch = c

\* the position after the match of atoms k.. at pos, or -1; + is greedy and
\* backtracks
RECURSIVE MatchFrom(_, _, _, _, _)
RECURSIVE MatchPlus(_, _, _, _, _, _)
MatchFrom(atoms, k, text, pos, ic) ==
    IF k > Len(atoms) THEN pos
    ELSE IF atoms[k].ch = WordBoundary
    THEN IF AtWordBoundary(text, pos) THEN MatchFrom(atoms, k + 1, text, pos, ic) ELSE -1
    ELSE IF ~atoms[k].plus
    THEN IF pos <= Len(text) /\ CharMatches(atoms[k], text[pos], ic)
         THEN MatchFrom(atoms, k + 1, text, pos + 1, ic)
         ELSE -1
    ELSE LET run == CHOOSE n \in 0..(Len(text) - pos + 1) :
                        /\ \A j \in 0..(n - 1) : CharMatches(atoms[k], text[pos + j], ic)
                        /\ (pos + n <= Len(text) => ~CharMatches(atoms[k], text[pos + n], ic))
         IN  MatchPlus(atoms, k, text, pos, ic, run)

MatchPlus(atoms, k, text, pos, ic, n) ==
    IF n < 1 THEN -1
    ELSE LET r == MatchFrom(atoms, k + 1, text, pos + n, ic)
         IN  IF r # -1 THEN r ELSE MatchPlus(atoms, k, text, pos, ic, n - 1)

\* the position after the match of the regex at pos (first alternative that
\* matches), or -1
MatchAt(re, text, pos) ==
    LET hits == {a \in 1..Len(re.alts) :
                    MatchFrom(re.alts[a], 1, text, pos, re.ignoreCase) # -1}
    IN  IF hits = {} THEN -1
        ELSE LET a == CHOOSE x \in hits : \A y \in hits : x <= y
             IN  MatchFrom(re.alts[a], 1, text, pos, re.ignoreCase)

\* RegExp.prototype.test, for a regex without the g flag
test(re, text) == \E pos \in 1..(Len(text) + 1) : MatchAt(re, text, pos) # -1

(***************************************************************************)
(* fetchGitHubCodeSnippets: the snippet of one fetched file.               *)
(***************************************************************************)
\* the response body of the content endpoint: a string, or anything else
TextContent(text) == [isString |-> TRUE, text |-> text]
NonTextContent == [isString |-> FALSE, text |-> <<>>]

\* lines = typeof fileContent === 'string' ? fileContent.split('\n') : []
fileLines(fileContent) ==
    IF fileContent.isString THEN SplitNL(fileContent.text) ELSE <<>>

LongerThanTwo(term) == Len(term) > 2

\* query.trim().split(/\s+/).filter(term => term.length > 2)
queryTerms(query) == SelectSeq(SplitWS(trim(query)), LongerThanTwo)

\* queryTerms.map(term => `(${escaped term})`).join('|')
queryRegexSource(query) ==
    LET terms == queryTerms(query)
    IN  Join([i \in 1..Len(terms) |-> <<"(">> \o escapeRegExp(terms[i]) \o <<")">>],
             <<"|">>)

queryRegex(query) == RegExp(queryRegexSource(query), TRUE)

\* the 0-based indices of the lines queryRegex.test accepts, ascending
RECURSIVE MatchingFrom(_, _, _)
MatchingFrom(re, lines, index) ==
    IF index >= Len(lines) THEN <<>>
    ELSE IF test(re, lines[index + 1])
    THEN <<index>> \o MatchingFrom(re, lines, index + 1)
    ELSE MatchingFrom(re, lines, index + 1)

matchingLineIndices(query, lines) == MatchingFrom(queryRegex(query), lines, 0)

\* lines.slice(0, n)
SliceFirst(lines, n) == SubSeq(lines, 1, Min(n, Len(lines)))

\* the number of lines the fallback shows
FallbackLines == 10

\* the branch taken when no line matches
fallbackSnippet(lines) ==
    [snippet     |-> Join(SliceFirst(lines, FallbackLines), <<"\n">>),
     lineNumbers |-> [i \in 1..FallbackLines |-> i]]

contextSize == 2

\* the marker pushed between two runs of lines
Separator == <<".", ".", ".">>

\* PushLines numbering the lines from 0, as the loop index does
PushLinesZeroBased(acc, lines, from, to) ==
    [snippetLines |-> acc.snippetLines \o [i \in 1..(to - from + 1) |-> lines[from + i]],
     lineNumbers  |-> acc.lineNumbers \o [i \in 1..(to - from + 1) |-> from + i - 1],
     lastLineAdded |-> acc.lastLineAdded]

\* lines[from..to] (0-based, inclusive) and their 1-based numbers, appended
PushLines(acc, lines, from, to) ==
    [snippetLines |-> acc.snippetLines \o [i \in 1..(to - from + 1) |-> lines[from + i]],
     lineNumbers  |-> acc.lineNumbers \o [i \in 1..(to - from + 1) |-> from + i],
     lastLineAdded |-> acc.lastLineAdded]

\* AddMatch without the separator between two runs
AddMatchNoSeparator(acc, lines, matchedLine) ==
    LET startLine == Max(0, matchedLine - contextSize)
        endLine   == Min(Len(lines) - 1, matchedLine + contextSize)
        pushed ==
            IF startLine <= acc.lastLineAdded + 1
            THEN PushLines(acc, lines, acc.lastLineAdded + 1, endLine)
            ELSE PushLines(acc, lines, startLine, endLine)
    IN  [pushed EXCEPT !.lastLineAdded = endLine]

\* AddMatch that starts a new run for every match, overlapping or not
AddMatchNoMerge(acc, lines, matchedLine) ==
    LET startLine == Max(0, matchedLine - contextSize)
        endLine   == Min(Len(lines) - 1, matchedLine + contextSize)
        sep == IF Len(acc.snippetLines) > 0
               THEN [acc EXCEPT !.snippetLines = Append(@, Separator),
                                !.lineNumbers = Append(@, -1)]
               ELSE acc
    IN  [PushLines(sep, lines, startLine, endLine) EXCEPT !.lastLineAdded = endLine]

\* AddMatch pushing the whole window of a match that overlaps the previous run
AddMatchWholeWindow(acc, lines, matchedLine) ==
    LET startLine == Max(0, matchedLine - contextSize)
        endLine   == Min(Len(lines) - 1, matchedLine + contextSize)
        pushed ==
            IF startLine <= acc.lastLineAdded + 1
            THEN PushLines(acc, lines, startLine, endLine)
            ELSE LET sep == IF Len(acc.snippetLines) > 0
                            THEN [acc EXCEPT !.snippetLines = Append(@, Separator),
                                             !.lineNumbers = Append(@, -1)]
                            ELSE acc
                 IN  PushLines(sep, lines, startLine, endLine)
    IN  [pushed EXCEPT !.lastLineAdded = endLine]

\* one pass of the loop over matchingLineIndices
AddMatch(acc, lines, matchedLine) ==
    LET startLine == Max(0, matchedLine - contextSize)
        endLine   == Min(Len(lines) - 1, matchedLine + contextSize)
        pushed ==
            IF startLine <= acc.lastLineAdded + 1
            THEN PushLines(acc, lines, acc.lastLineAdded + 1, endLine)
            ELSE LET sep == IF Len(acc.snippetLines) > 0
                            THEN [acc EXCEPT !.snippetLines = Append(@, Separator),
                                             !.lineNumbers = Append(@, -1)]
                            ELSE acc
                 IN  PushLines(sep, lines, startLine, endLine)
    IN  [pushed EXCEPT !.lastLineAdded = endLine]

RECURSIVE ContextLoop(_, _, _)
ContextLoop(acc, lines, matches) ==
    IF matches = <<>> THEN acc
    ELSE ContextLoop(AddMatch(acc, lines, matches[1]), lines, Tail(matches))

\* the branch taken when some line matches
windowSnippet(lines, matches) ==
    LET acc == ContextLoop([snippetLines |-> <<>>, lineNumbers |-> <<>>,
                            lastLineAdded |-> -1], lines, matches)
    IN  [snippet     |-> Join(acc.snippetLines, <<"\n">>),
         lineNumbers |-> acc.lineNumbers]

\* the snippet and lineNumbers of the code result built from one file
buildSnippet(query, fileContent) ==
    LET lines   == fileLines(fileContent)
        matches == matchingLineIndices(query, lines)
    IN  IF Len(matches) = 0 THEN fallbackSnippet(lines)
        ELSE windowSnippet(lines, matches)

(***************************************************************************)
(* JavaScript values that may be absent.                                   *)
(***************************************************************************)
Undefined == <<"undefined">>
Null == <<"null">>
Val(v) == <<"value", v>>
IsVal(x) == x[1] = "value"
ValOf(x) == x[2]

\* the truthiness of an optional number, and of an optional string
TruthyNumber(x) == IsVal(x) /\ ValOf(x) # 0
TruthyString(x) == IsVal(x) /\ ValOf(x) # <<>>

(***************************************************************************)
(* calculateCombinedScore.  Scores are kept in hundredths of a point, so   *)
(* that stars / 100 stays an integer.                                      *)
(***************************************************************************)
\* the number of matches String.prototype.match finds for a /g regex: the
\* leftmost match from pos on, then again after it (one further when empty)
RECURSIVE CountMatches(_, _, _)
CountMatches(re, text, pos) ==
    LET starts == {q \in pos..(Len(text) + 1) : MatchAt(re, text, q) # -1}
    IN  IF starts = {} THEN 0
        ELSE LET q == CHOOSE x \in starts : \A y \in starts : x <= y
                 e == MatchAt(re, text, q)
             IN  1 + CountMatches(re, text, IF e = q THEN q + 1 ELSE e)

\* the sum of f over the elements of a sequence
RECURSIVE SumSeq(_)
SumSeq(xs) == IF xs = <<>> THEN 0 ELSE xs[1] + SumSeq(Tail(xs))

\* query.toLowerCase().split(/\s+/)
scoreTerms(query) == SplitWS(toLowerCase(query))

starsScoreUncapped(result) ==
    IF TruthyNumber(result.stars) THEN ValOf(result.stars) ELSE 0

starsScore(result) ==
    IF TruthyNumber(result.stars) THEN Min(ValOf(result.stars), 50 * 100) ELSE 0

typeScore(result) ==
    (IF result.type = "repository" THEN 10 * 100 ELSE 0)
    + (IF result.type = "code" /\ result.hasRepoData = Val(TRUE) THEN 5 * 100 ELSE 0)

titleScore(result, terms) ==
    IF ~TruthyString(result.title) THEN 0
    ELSE LET titleLower == toLowerCase(ValOf(result.title))
         IN  SumSeq([i \in 1..Len(terms) |->
                 IF includes(titleLower, terms[i])
                 THEN 15 * 100 + (IF titleLower = terms[i] THEN 10 * 100 ELSE 0)
                 ELSE 0])

descriptionScore(result, terms) ==
    IF ~TruthyString(result.description) THEN 0
    ELSE LET descLower == toLowerCase(ValOf(result.description))
         IN  SumSeq([i \in 1..Len(terms) |->
                 IF includes(descLower, terms[i]) THEN 5 * 100 ELSE 0])

\* new RegExp(term, 'g') throws on a term that is no regular expression
snippetScoreThrows(result, terms) ==
    /\ TruthyString(result.snippet)
    /\ \E i \in 1..Len(terms) : ~RegExp(terms[i], FALSE).ok

snippetScore(result, terms) ==
    IF ~TruthyString(result.snippet) THEN 0
    ELSE LET snippetLower == toLowerCase(ValOf(result.snippet))
         IN  SumSeq([i \in 1..Len(terms) |->
                 Min(CountMatches(RegExp(terms[i], FALSE), snippetLower, 1) * 2, 20) * 100])

\* timestamp is the age of the update in days when the search runs
freshnessScore(result) ==
    IF ~IsVal(result.timestamp) THEN 0
    ELSE LET daysSinceUpdate == ValOf(result.timestamp)
         IN  IF daysSinceUpdate < 7 THEN 10 * 100
             ELSE IF daysSinceUpdate < 30 THEN 5 * 100
             ELSE IF daysSinceUpdate < 90 THEN 2 * 100
             ELSE 0

\* threw: the call raised a SyntaxError; score: the value returned otherwise
calculateCombinedScore(result, query) ==
    LET terms == scoreTerms(query)
    IN  IF snippetScoreThrows(result, terms)
        THEN [threw |-> TRUE, score |-> 0]
        ELSE [threw |-> FALSE,
              score |-> starsScore(result) + typeScore(result)
                        + titleScore(result, terms) + descriptionScore(result, terms)
                        + snippetScore(result, terms) + freshnessScore(result)]

(***************************************************************************)
(* The upstream items and the SearchResult built from each.                *)
(***************************************************************************)
Digit(n) == <<"0", "1", "2", "3", "4", "5", "6", "7", "8", "9">>[n + 1]

\* full_name of repository n
FullName(n) == <<"a", "b", "c", "/", Digit(n)>>

NoDescription ==
    <<"N", "o", " ", "d", "e", "s", "c", "r", "i", "p", "t", "i", "o", "n", " ",
      "a", "v", "a", "i", "l", "a", "b", "l", "e">>

\* item n of a repository search response: odd repositories carry a
\* description, a license and no topics; even ones the opposite
RepoItem(n) ==
    [id |-> n,
     full_name |-> FullName(n),
     description |-> IF n % 2 = 1 THEN Val(<<"A", "b", "c", " ", "x">>) ELSE Null,
     stargazers_count |-> 2400 * n,
     forks_count |-> 10 + n,
     watchers_count |-> 20 + n,
     open_issues_count |-> 30 + n,
     updated_at |-> 20 * n,
     topics |-> IF n % 2 = 1 THEN Undefined ELSE Val(<<"topic", Digit(n)>>),
     license |-> IF n % 2 = 1 THEN Val("MIT License") ELSE Null]

\* lines 113-133: data.items.map(...)
mapRepoItem(item) ==
    [id |-> <<"repo-", Digit(item.id)>>,
     title |-> Val(item.full_name),
     type |-> "repository",
     source |-> item.full_name,
     description |-> IF TruthyString(item.description) THEN item.description
                     ELSE Val(NoDescription),
     snippet |-> Undefined,
     lineNumbers |-> Undefined,
     stars |-> Val(item.stargazers_count),
     forks |-> Val(item.forks_count),
     watchers |-> Val(item.watchers_count),
     timestamp |-> Val(item.updated_at),
     topics |-> IF IsVal(item.topics) THEN item.topics ELSE Val(<<>>),
     openIssues |-> Val(item.open_issues_count),
     license |-> IF IsVal(item.license) THEN item.license ELSE Null,
     hasRepoData |-> Undefined,
     apiSource |-> Undefined,
     score |-> Undefined]

\* item n of a code search response: a file of repository 1 or 2; the
\* repository object of a code hit carries no star count
CodeItem(n) ==
    [sha |-> <<"s", Digit(n)>>,
     repository |-> [id |-> ((n - 1) % 2) + 1,
                     full_name |-> FullName(((n - 1) % 2) + 1),
                     stargazers_count |-> IF n % 2 = 1 THEN Undefined ELSE Val(7),
                     updated_at |-> IF n % 2 = 1 THEN Val(3) ELSE Undefined]]

\* lines 260-276 and 314-330: the code result of an item and its snippet;
\* an absent updated_at is replaced by the time of the search
toCodeResult(item, built) ==
    [id |-> <<Digit(item.repository.id), "-">> \o item.sha,
     title |-> Val(item.repository.full_name),
     type |-> "code",
     source |-> item.repository.full_name,
     description |-> Undefined,
     snippet |-> Val(built.snippet),
     lineNumbers |-> Val(built.lineNumbers),
     stars |-> item.repository.stargazers_count,
     forks |-> Undefined,
     watchers |-> Undefined,
     timestamp |-> IF IsVal(item.repository.updated_at)
                   THEN item.repository.updated_at ELSE Val(0),
     topics |-> Undefined,
     openIssues |-> Undefined,
     license |-> Undefined,
     hasRepoData |-> Undefined,
     apiSource |-> Undefined,
     score |-> Undefined]

\* lines 134-153 and 338-357: the message of the error a failed search is
\* rethrown as; failure is [status, code, message] of the axios error
upstreamErrorMessage(failure) ==
    IF IsVal(failure.status)
    THEN CASE ValOf(failure.status) = "401" ->
                <<"GitHub API authentication failed. Please check your API token.">>
           [] ValOf(failure.status) = "403" ->
                <<"GitHub API rate limit exceeded. Please try again later.">>
           [] ValOf(failure.status) = "422" ->
                <<"Invalid search query. Please check your search terms.">>
           [] OTHER ->
                <<"GitHub API error (", ValOf(failure.status), "): ", failure.message>>
    ELSE IF failure.code \in {Val("ENOTFOUND"), Val("ECONNREFUSED")}
    THEN <<"Network error. Please check your internet connection.">>
    ELSE <<"Search failed: ", failure.message>>

\* the ways a search request fails
Failures ==
    {[status |-> Val(st), code |-> Val("ERR_BAD_REQUEST"), message |-> "Request failed"] :
        st \in {"401", "403", "422", "500"}}
    \cup {[status |-> Undefined, code |-> Val("ENOTFOUND"), message |-> "getaddrinfo ENOTFOUND"],
          [status |-> Undefined, code |-> Val("ECONNABORTED"),
           message |-> "timeout of 10000ms exceeded"]}

(***************************************************************************)
(* fetchSearchResults: what runs once both searches have settled.          *)
(***************************************************************************)
Fulfilled(value) == [state |-> "fulfilled", value |-> value, reason |-> <<>>]
Rejected(reason) == [state |-> "rejected", value |-> <<>>, reason |-> reason]

apiSources == <<"GitHub Code API", "GitHub Repositories API">>

\* collectErrors that drops the message of the code search
collectErrorsRepoOnly(repoOutcome, codeOutcome) ==
    IF repoOutcome.state = "fulfilled" THEN <<>>
    ELSE << <<"Repository search: ">> \o repoOutcome.reason >>

\* lines 388-402: the messages of the searches that were rejected
collectErrors(repoOutcome, codeOutcome) ==
    (IF repoOutcome.state = "fulfilled" THEN <<>>
     ELSE << <<"Repository search: ">> \o repoOutcome.reason >>)
    \o (IF codeOutcome.state = "fulfilled" THEN <<>>
        ELSE << <<"Code search: ">> \o codeOutcome.reason >>)

NoResultsMessage ==
    <<"No results found for your search query. Try different search terms.">>

\* the number of repositories placed ahead of the code results
TopRepos == 3

\* repoDataMap.get(source): the last repository filed under the source
RECURSIVE repoDataMapGet(_, _)
repoDataMapGet(repoResults, source) ==
    IF repoResults = <<>> THEN Undefined
    ELSE IF repoResults[Len(repoResults)].source = source
    THEN Val(repoResults[Len(repoResults)])
    ELSE repoDataMapGet(SubSeq(repoResults, 1, Len(repoResults) - 1), source)

\* enrich that leaves forks as the code search gave it
enrichWithoutForks(codeResult, repoResults) ==
    LET matchingRepo == repoDataMapGet(repoResults, codeResult.source)
    IN  IF codeResult.source # <<>> /\ IsVal(matchingRepo)
        THEN [codeResult EXCEPT !.stars = ValOf(matchingRepo).stars,
                                !.watchers = ValOf(matchingRepo).watchers,
                                !.openIssues = ValOf(matchingRepo).openIssues,
                                !.license = ValOf(matchingRepo).license,
                                !.topics = ValOf(matchingRepo).topics,
                                !.hasRepoData = Val(TRUE)]
        ELSE codeResult

\* lines 441-460: a code result with the metadata of its repository
enrich(codeResult, repoResults) ==
    LET matchingRepo == repoDataMapGet(repoResults, codeResult.source)
    IN  IF codeResult.source # <<>> /\ IsVal(matchingRepo)
        THEN [codeResult EXCEPT !.stars = ValOf(matchingRepo).stars,
                                !.forks = ValOf(matchingRepo).forks,
                                !.watchers = ValOf(matchingRepo).watchers,
                                !.openIssues = ValOf(matchingRepo).openIssues,
                                !.license = ValOf(matchingRepo).license,
                                !.topics = ValOf(matchingRepo).topics,
                                !.hasRepoData = Val(TRUE)]
        ELSE codeResult

\* combineResults that puts every repository ahead of the code results
combineResultsReposFirst(githubRepos, codeSnippets) ==
    LET repoResults == [i \in 1..Len(githubRepos) |->
                           [githubRepos[i] EXCEPT !.apiSource = Val("GitHub Repositories API")]]
        codeResults == [i \in 1..Len(codeSnippets) |->
                           [codeSnippets[i] EXCEPT !.apiSource = Val("GitHub Code API")]]
    IN  repoResults \o [i \in 1..Len(codeResults) |-> enrich(codeResults[i], repoResults)]

\* lines 416-468: top repositories, enriched code results, other repositories
combineResults(githubRepos, codeSnippets) ==
    LET repoResults == [i \in 1..Len(githubRepos) |->
                           [githubRepos[i] EXCEPT !.apiSource = Val(apiSources[2])]]
        codeResults == [i \in 1..Len(codeSnippets) |->
                           [codeSnippets[i] EXCEPT !.apiSource = Val(apiSources[1])]]
        enrichedCodeResults == [i \in 1..Len(codeResults) |->
                                   enrich(codeResults[i], repoResults)]
    IN  SubSeq(repoResults, 1, Min(TopRepos, Len(repoResults)))
        \o enrichedCodeResults
        \o SubSeq(repoResults, TopRepos + 1, Len(repoResults))

\* lines 471-474: every result with its score
withScores(combinedResults, query) ==
    [i \in 1..Len(combinedResults) |->
        [combinedResults[i] EXCEPT
            !.score = Val(calculateCombinedScore(combinedResults[i], query).score)]]

Resolve(value) == [state |-> "resolved", value |-> value, message |-> <<>>]
Reject(message) == [state |-> "rejected", value |-> <<>>, message |-> message]

\* lines 388-497: the outcome of fetchSearchResults once both searches settled
settle(query, repoOutcome, codeOutcome) ==
    LET githubRepos == repoOutcome.value
        codeSnippets == codeOutcome.value
        errors == collectErrors(repoOutcome, codeOutcome)
        combinedResults == combineResults(githubRepos, codeSnippets)
    IN  IF Len(githubRepos) = 0 /\ Len(codeSnippets) = 0
        THEN IF Len(errors) > 0
             THEN Reject(<<"Search failed: ">> \o Join(errors, <<"; ">>))
             ELSE Reject(NoResultsMessage)
        ELSE IF \E i \in 1..Len(combinedResults) :
                    calculateCombinedScore(combinedResults[i], query).threw
        THEN Reject(<<"Invalid regular expression: Nothing to repeat">>)
        ELSE Resolve(withScores(combinedResults, query))

\* lines 209-335: the slot of one code hit once its content request ended;
\* response is <<>> when the request failed
contentSlot(query, item, response) ==
    IF response = <<>> \/ ~queryRegex(query).ok
    THEN <<"null">>
    ELSE <<"ok", toCodeResult(item, buildSnippet(query, response[1]))>>

\* line 337: codeResults.filter(result => result !== null)
RECURSIVE nonNull(_)
nonNull(slots) ==
    IF slots = <<>> THEN <<>>
    ELSE IF slots[1][1] = "ok" THEN <<slots[1][2]>> \o nonNull(Tail(slots))
    ELSE nonNull(Tail(slots))

(***************************************************************************)
(* State.                                                                  *)
(***************************************************************************)
VARIABLES
    pc,          \* fetchSearchResults: "idle", "searching", "resolved", "rejected"
    aggQuery,    \* its query argument
    repoSearch,  \* the promise of fetchGitHubRepositories
    codeSearch,  \* the promise of fetchGitHubCodeSnippets
    codeItems,   \* the items of the code search response
    codeSlots,   \* the per-item promises inside Promise.all
    outcome,     \* what fetchSearchResults resolved or rejected with
    snQuery,     \* the query of the code search whose file is being processed
    snContent,   \* the body the content endpoint returned for the file
    snPc,        \* "fetched": body received; "built": code result returned
    snLines,     \* the callback's lines
    snMatches,   \* the callback's matchingLineIndices
    snResult     \* the snippet and lineNumbers of the code result

snVars == <<snQuery, snContent, snPc, snLines, snMatches, snResult>>
aggVars == <<pc, aggQuery, repoSearch, codeSearch, codeItems, codeSlots, outcome>>

VARIABLES
    scPc,        \* calculateCombinedScore: "idle", "ready", "scored"
    scResult,    \* the result being scored
    scQuery,     \* the query it is scored against
    scMore,      \* the stars of a second result, equal to the first otherwise
    scScore,     \* calculateCombinedScore(scResult, scQuery)
    scScoreMore, \* the same for the second result
    filters,     \* App: the filters state
    today,       \* the UTC day on which the app runs
    request,     \* the last request sent to the repository search endpoint
    arrays,      \* the arrays on the heap, by reference
    appResults,  \* App: the reference held by the results state
    listResults, \* ResultsList: the reference received as the results prop
    displayed,   \* ResultsList: the cards rendered, as <<id, score>> in order
    hlPc,        \* getEnhancedCodeSnippet: "idle", "ready", "rendered"
    hlQuery,     \* its query
    hlOptions,   \* ResultsList: the searchOptions state
    hlSnippet,   \* the snippet and lineNumbers of the code result it renders
    hlRows,      \* the rows rendered
    hlCount      \* the count of the "matches found" footer

scVars == <<scPc, scResult, scQuery, scMore, scScore, scScoreMore>>
appVars == <<filters, today, request, arrays, appResults, listResults, displayed>>
hlVars == <<hlPc, hlQuery, hlOptions, hlSnippet, hlRows, hlCount>>

VARIABLES
    user,            \* Clerk's useUser().user: Null when signed out
    appQuery,        \* App: the query state
    appLoading,      \* App: the loading state
    appError,        \* App: the error state
    calls,           \* the calls of handleSearch started, in order
    uniqueClerkId,   \* whether the users table rejects a second row of a clerk_id
    usersTable,      \* the rows of the users table
    searchHistory,   \* the rows of the search_history table
    increments       \* the calls of the increment_search_count procedure

srVars == <<user, appQuery, appLoading, appError, calls>>
dbVars == <<uniqueClerkId, usersTable, searchHistory, increments>>

VARIABLES
    feedbackTable,   \* the rows of the feedback table
    fbRequests,      \* the requests sent to the feedback table
    fbOutcome,       \* what the last call of the feedback service ended with
    notifTable,      \* the rows of the notifications table, oldest first
    runs,            \* the runs of the two effects that create the user row
    notifications,   \* Notifications: the notifications state, the list shown
    unreadCount,     \* Notifications: the unreadCount state
    page,            \* Notifications: the page state
    hasMore,         \* Notifications: the hasMore state
    ntLoading,       \* Notifications: the loading state
    fetches,         \* the calls of fetchNotifications, in order
    deliveries,      \* the realtime INSERT events on their way to a channel
    reads            \* the calls of markAsRead and markAllAsRead, in order

fbVars == <<feedbackTable, fbRequests, fbOutcome>>
usVars == <<notifTable, runs>>
ntVars == <<notifications, unreadCount, page, hasMore, ntLoading, fetches,
            deliveries, reads>>
opVars == <<srVars, dbVars, fbVars, usVars, ntVars>>
uiVars == <<scVars, appVars, hlVars, opVars>>
vars == <<aggVars, snVars, uiVars>>

(***************************************************************************)
(* Inputs of the snippet builder.                                          *)
(***************************************************************************)
\* a line that holds the term abc in another case, and one that holds only ab
LineHit == <<"x", "A", "b", "c">>
LineMiss == <<"a", "b">>
LineVocab == {LineHit, LineMiss}

\* abc; a query without a token longer than 2; a padded query whose first
\* token is too short to be a term
QueryAbc == <<"a", "b", "c">>
QueryGo == <<"g", "o">>
QueryPadded == <<" ", "a", "b", " ", " ", "A", "B", "C", " ">>
SnQueries == {QueryAbc, QueryGo, QueryPadded}

\* every text of at most MaxLines lines of the vocabulary (the text of no
\* lines is the empty string, which split turns into one empty line)
SnTexts ==
    {Join(ls, <<"\n">>) : ls \in UNION {[1..n -> LineVocab] : n \in 0..MaxLines}}

SnContents == {TextContent(t) : t \in SnTexts} \cup {NonTextContent}

NoSnippet == [snippet |-> <<>>, lineNumbers |-> <<>>]

Idle == [state |-> "idle", value |-> <<>>, reason |-> <<>>]
Pending == [state |-> "pending", value |-> <<>>, reason |-> <<>>]
NoOutcome == [state |-> "none", value |-> <<>>, message |-> <<>>]

\* no call of fetchSearchResults made
AggIdle ==
    /\ pc = "idle"
    /\ aggQuery = <<>>
    /\ repoSearch = Idle
    /\ codeSearch = Idle
    /\ codeItems = <<>>
    /\ codeSlots = <<>>
    /\ outcome = NoOutcome

\* no file in the snippet builder
SnIdle ==
    /\ snQuery = <<>>
    /\ snContent = NonTextContent
    /\ snPc = "idle"
    /\ snLines = <<>>
    /\ snMatches = <<>>
    /\ snResult = NoSnippet

\* no result in calculateCombinedScore
NoScore == [threw |-> FALSE, score |-> 0]
ScIdle ==
    /\ scPc = "idle"
    /\ scResult = [id |-> 0]
    /\ scQuery = <<>>
    /\ scMore = 0
    /\ scScore = NoScore
    /\ scScoreMore = NoScore

\* App.tsx, lines 28-34: the initial filters state
\* the language and repository filters are strings the program transforms;
\* the others are compared only
AllChars == <<"a", "l", "l">>
InitialFilters ==
    [language |-> AllChars, type |-> "all", time |-> "all", repository |-> AllChars,
     sort |-> "relevance"]

NoRequest == [sent |-> FALSE, q |-> <<>>, sort |-> "", order |-> ""]

\* the app mounted: results state holds a first, empty array; nothing rendered
AppIdle ==
    /\ filters = InitialFilters
    /\ today = 0
    /\ request = NoRequest
    /\ arrays = << <<>> >>
    /\ appResults = 1
    /\ listResults = 0
    /\ displayed = <<>>

\* ResultsList.tsx, lines 117-122: the initial searchOptions state
InitialOptions ==
    [matchWholeWord |-> FALSE, matchCase |-> FALSE, useRegex |-> FALSE,
     highlightMatchesOnly |-> TRUE]

\* no code result in getEnhancedCodeSnippet
HlIdle ==
    /\ hlPc = "idle"
    /\ hlQuery = <<>>
    /\ hlOptions = InitialOptions
    /\ hlSnippet = NoSnippet
    /\ hlRows = <<>>
    /\ hlCount = 0

\* App.tsx, lines 20-36: signed out, no search made
SrIdle ==
    /\ user = Null
    /\ appQuery = <<>>
    /\ appLoading = FALSE
    /\ appError = Null
    /\ calls = <<>>

\* the tables of the database, empty
DbIdle ==
    /\ uniqueClerkId = TRUE
    /\ usersTable = <<>>
    /\ searchHistory = <<>>
    /\ increments = <<>>

\* no call of the feedback service made, no feedback row
FbIdle ==
    /\ feedbackTable = <<>>
    /\ fbRequests = 0
    /\ fbOutcome = NoOutcome

\* no notification row, no effect run
UsIdle ==
    /\ notifTable = <<>>
    /\ runs = <<>>

\* Notifications.tsx, lines 23-30: the initial state of the component
NtIdle ==
    /\ notifications = <<>>
    /\ unreadCount = 0
    /\ page = 0
    /\ hasMore = TRUE
    /\ ntLoading = FALSE
    /\ fetches = <<>>
    /\ deliveries = {}
    /\ reads = <<>>

OpIdle == SrIdle /\ DbIdle /\ FbIdle /\ UsIdle /\ NtIdle
ScAppIdle == ScIdle /\ AppIdle /\ OpIdle
AppHlIdle == AppIdle /\ HlIdle /\ OpIdle
ScHlIdle == ScIdle /\ HlIdle /\ OpIdle
UiIdle == ScIdle /\ AppIdle /\ HlIdle /\ OpIdle

(***************************************************************************)
(* SnippetSpec: one file of a code search hit run through the builder.     *)
(***************************************************************************)
SnInit ==
    /\ snQuery \in SnQueries
    /\ snContent \in SnContents
    /\ snPc = "fetched"
    /\ snLines = <<>>
    /\ snMatches = <<>>
    /\ snResult = NoSnippet
    /\ AggIdle
    /\ UiIdle

\* lines 231-330: the body of the per-item callback after the content arrived
BuildSnippet ==
    /\ snPc = "fetched"
    /\ snLines' = fileLines(snContent)
    /\ snMatches' = matchingLineIndices(snQuery, fileLines(snContent))
    /\ snResult' = buildSnippet(snQuery, snContent)
    /\ snPc' = "built"
    /\ UNCHANGED <<snQuery, snContent>>
    /\ UNCHANGED <<aggVars, uiVars>>

SnNext == BuildSnippet

SnippetSpec == SnInit /\ [][SnNext]_vars

(***************************************************************************)
(* Inputs of fetchSearchResults.                                           *)
(***************************************************************************)
QueryCpp == <<"c", "+", "+">>
QueryBlank == <<" ">>
QueryEmpty == <<>>
AggQueries == {QueryAbc, QueryCpp, QueryBlank, QueryEmpty}

\* the file the content endpoint serves: a line for each query (bodies that
\* are no string, and files of every shape, are the inputs of SnippetSpec)
FileCppAbc == TextContent(<<"c", "+", "+", "\n", "x", "A", "b", "c">>)
AggContents == {FileCppAbc}

\* the sequences of at most n distinct elements of S
DistinctSeqs(S, n) ==
    {q \in UNION {[1..k -> S] : k \in 0..n} :
        \A i, j \in 1..Len(q) : i # j => q[i] # q[j]}

RepoResponses == DistinctSeqs(1..MaxRepos, MaxRepos)
CodeResponses == DistinctSeqs(1..MaxCode, MaxCode)

(***************************************************************************)
(* Spec: one call of fetchSearchResults and the requests it starts.        *)
(***************************************************************************)
Init == AggIdle /\ SnIdle /\ UiIdle

\* lines 362-386: validation, then both searches are started
FetchSearchResults(q) ==
    /\ pc = "idle"
    /\ aggQuery' = q
    /\ IF trim(q) = <<>>
       THEN /\ pc' = "rejected"
            /\ outcome' = Reject(<<"Search query cannot be empty">>)
            /\ UNCHANGED <<repoSearch, codeSearch>>
       ELSE /\ pc' = "searching"
            /\ repoSearch' = Pending
            /\ codeSearch' = Pending
            /\ UNCHANGED outcome
    /\ UNCHANGED <<codeItems, codeSlots>>
    /\ UNCHANGED <<snVars, uiVars>>

\* lines 87-133: the repository search answers with items
RepoSearchResponds(ids) ==
    /\ repoSearch.state = "pending"
    /\ repoSearch' = Fulfilled([i \in 1..Len(ids) |-> mapRepoItem(RepoItem(ids[i]))])
    /\ UNCHANGED <<pc, aggQuery, codeSearch, codeItems, codeSlots, outcome>>
    /\ UNCHANGED <<snVars, uiVars>>

\* lines 134-154: the repository search fails
RepoSearchFails(failure) ==
    /\ repoSearch.state = "pending"
    /\ repoSearch' = Rejected(upstreamErrorMessage(failure))
    /\ UNCHANGED <<pc, aggQuery, codeSearch, codeItems, codeSlots, outcome>>
    /\ UNCHANGED <<snVars, uiVars>>

\* lines 183-224: the code search answers; a content request per item starts
CodeSearchResponds(ids) ==
    /\ codeSearch.state = "pending"
    /\ IF ids = <<>>
       THEN /\ codeSearch' = Fulfilled(<<>>)
            /\ UNCHANGED <<codeItems, codeSlots>>
       ELSE /\ codeSearch' = [Pending EXCEPT !.state = "fetching"]
            /\ codeItems' = [i \in 1..Len(ids) |-> CodeItem(ids[i])]
            /\ codeSlots' = [i \in 1..Len(ids) |-> <<"pending">>]
    /\ UNCHANGED <<pc, aggQuery, repoSearch, outcome>>
    /\ UNCHANGED <<snVars, uiVars>>

\* lines 338-358: the code search fails
CodeSearchFails(failure) ==
    /\ codeSearch.state = "pending"
    /\ codeSearch' = Rejected(upstreamErrorMessage(failure))
    /\ UNCHANGED <<pc, aggQuery, repoSearch, codeItems, codeSlots, outcome>>
    /\ UNCHANGED <<snVars, uiVars>>

\* lines 217-337: the content request of item i ends (response <<>>: it
\* failed); when it is the last one, Promise.all resolves and the nulls are
\* filtered out
ContentSettles(i, response) ==
    /\ codeSearch.state = "fetching"
    /\ codeSlots[i] = <<"pending">>
    /\ LET slots == [codeSlots EXCEPT ![i] = contentSlot(aggQuery, codeItems[i], response)]
       IN  /\ codeSlots' = slots
           /\ codeSearch' = IF \A j \in 1..Len(slots) : slots[j] # <<"pending">>
                            THEN Fulfilled(nonNull(slots))
                            ELSE codeSearch
    /\ UNCHANGED <<pc, aggQuery, repoSearch, codeItems, outcome>>
    /\ UNCHANGED <<snVars, uiVars>>

ContentResponds(i, content) == ContentSettles(i, <<content>>)
ContentFails(i) == ContentSettles(i, <<>>)

Settled(search) == search.state \in {"fulfilled", "rejected"}

\* lines 383-497: Promise.allSettled resolves; merge, score, return or throw
Settle ==
    /\ pc = "searching"
    /\ Settled(repoSearch)
    /\ Settled(codeSearch)
    /\ outcome' = settle(aggQuery, repoSearch, codeSearch)
    /\ pc' = outcome'.state
    /\ UNCHANGED <<aggQuery, repoSearch, codeSearch, codeItems, codeSlots>>
    /\ UNCHANGED <<snVars, uiVars>>

Next ==
    \/ \E q \in AggQueries : FetchSearchResults(q)
    \/ \E ids \in RepoResponses : RepoSearchResponds(ids)
    \/ \E failure \in Failures : RepoSearchFails(failure)
    \/ \E ids \in CodeResponses : CodeSearchResponds(ids)
    \/ \E failure \in Failures : CodeSearchFails(failure)
    \/ \E i \in 1..Len(codeSlots), content \in AggContents : ContentResponds(i, content)
    \/ \E i \in 1..Len(codeSlots) : ContentFails(i)
    \/ Settle

Spec == Init /\ [][Next]_vars

(***************************************************************************)
(* ScoreSpec: calculateCombinedScore applied to one result, and to the     *)
(* result that differs from it in its stars only.                          *)
(***************************************************************************)
\* star counts around the cap of 50 points (5000 stars)
ScStars == {0, 2400, 5000, 7300}

\* a title equal to the term abc, and one that contains it
TitleAbc == <<"A", "b", "c">>
ScTitles == {TitleAbc, FullName(1)}

ScDescriptions == {Val(<<"A", "b", "c", " ", "x">>), Val(NoDescription), Undefined}

\* a snippet of two lines that holds abc twice and c++ once
SnippetAbcCpp == <<"x", "A", "b", "c", "\n", "a", "b", "c", " ", "c", "+", "+">>
ScSnippets == {Val(SnippetAbcCpp), Undefined}

\* ages in days on both sides of each freshness threshold
ScAges == {3, 20, 60, 200}

\* two terms, the second of which is abc
QueryTwoTerms == <<"x", " ", "a", "b", "c">>
ScQueries == {QueryAbc, QueryPadded, QueryCpp, QueryTwoTerms}

\* the fields calculateCombinedScore reads, as mapRepoItem, toCodeResult and
\* enrich fill them: a repository has stars and a description and no
\* snippet, a code result has a snippet and no description
ScResults ==
    {r \in [stars : {Val(n) : n \in ScStars} \cup {Undefined},
            type : {"repository", "code"},
            hasRepoData : {Val(TRUE), Undefined},
            title : {Val(t) : t \in ScTitles},
            description : ScDescriptions,
            snippet : ScSnippets,
            timestamp : {Val(a) : a \in ScAges}] :
        /\ r.type = "repository" =>
              IsVal(r.stars) /\ IsVal(r.description) /\ ~IsVal(r.snippet)
              /\ ~IsVal(r.hasRepoData)
        /\ r.type = "code" =>
              IsVal(r.snippet) /\ r.description # Val(NoDescription)
              /\ (IsVal(r.hasRepoData) => IsVal(r.stars))}

ScInit ==
    /\ scPc = "ready"
    /\ scResult \in ScResults
    /\ scQuery \in ScQueries
    /\ scMore \in {n \in ScStars : IsVal(scResult.stars) => ValOf(scResult.stars) <= n}
    /\ scScore = NoScore
    /\ scScoreMore = NoScore
    /\ AggIdle
    /\ SnIdle
    /\ AppHlIdle

\* lines 471-474: the score of a result, and of its twin with scMore stars
CalculateCombinedScore ==
    /\ scPc = "ready"
    /\ scScore' = calculateCombinedScore(scResult, scQuery)
    /\ scScoreMore' = calculateCombinedScore([scResult EXCEPT !.stars = Val(scMore)], scQuery)
    /\ scPc' = "scored"
    /\ UNCHANGED <<scResult, scQuery, scMore>>
    /\ UNCHANGED <<aggVars, snVars, appVars, hlVars, opVars>>

ScNext == CalculateCombinedScore

ScoreSpec == ScInit /\ [][ScNext]_vars

(***************************************************************************)
(* App and ResultsList: the filters, the results state and the cards       *)
(* rendered from it.  An array is a reference into arrays, so that a sort  *)
(* in place changes what every holder of the reference sees.               *)
(***************************************************************************)
\* App.tsx, lines 124-140
handleFilterChange(f, type, value) ==
    IF type = "reset" THEN InitialFilters
    ELSE [f EXCEPT ![type] = value]

\* App.tsx, lines 159-180: the time filter on a result updated age days ago
\* (an absent timestamp gives an invalid date, which no comparison rejects)
withinTime(time, timestamp) ==
    IF time = "all" \/ ~IsVal(timestamp) THEN TRUE
    ELSE LET diffDays == ValOf(timestamp)
         IN  CASE time = "day" -> ~(diffDays > 1)
               [] time = "week" -> ~(diffDays > 7)
               [] time = "month" -> ~(diffDays > 30)
               [] time = "year" -> ~(diffDays > 365)
               [] OTHER -> TRUE

\* App.tsx, lines 143-183: the predicate of results.filter
keepsResult(f, result) ==
    /\ ~(/\ f.language # AllChars
         /\ (~IsVal(result.language)
             \/ toLowerCase(ValOf(result.language)) # toLowerCase(f.language)))
    /\ ~(f.type # "all" /\ result.type # f.type)
    /\ ~(/\ f.repository # AllChars
         /\ ~includes(toLowerCase(result.source), toLowerCase(f.repository)))
    /\ withinTime(f.time, result.timestamp)

\* the array Array.prototype.filter returns, from position i on
RECURSIVE filterFrom(_, _, _)
filterFrom(f, results, i) ==
    IF i > Len(results) THEN <<>>
    ELSE (IF keepsResult(f, results[i]) THEN <<results[i]>> ELSE <<>>)
         \o filterFrom(f, results, i + 1)

\* a filter that writes its result over the array it was given
applyFiltersInPlace(heap, ref, f) ==
    [heap |-> [heap EXCEPT ![ref] = filterFrom(f, heap[ref], 1)], ref |-> ref]

\* App.tsx, lines 142-184 and 201: filteredResults, a new array (reference 2)
applyFilters(heap, ref, f) ==
    [heap |-> <<heap[1], filterFrom(f, heap[ref], 1)>>, ref |-> 2]

\* ResultsList.tsx, lines 690-720: the score before the final clamp, in
\* hundredths of a point; timestamp is the age of the update in days
repoScoreSum(result) ==
    (IF TruthyNumber(result.stars) THEN ValOf(result.stars) * 3 * 100 ELSE 0)
    + (IF TruthyNumber(result.forks) THEN ValOf(result.forks) * 2 * 100 ELSE 0)
    + (IF TruthyNumber(result.watchers) THEN ValOf(result.watchers) * 100 ELSE 0)
    - (IF result.openIssues # Undefined
       THEN Min((IF IsVal(result.openIssues) THEN ValOf(result.openIssues) ELSE 0) * 10,
                20 * 100)
       ELSE 0)
    + (IF IsVal(result.timestamp)
       THEN Max(0, 50 * 100 - ValOf(result.timestamp) * 50)
       ELSE 0)

calculateRepoScoreUnclamped(result) == repoScoreSum(result)

\* ResultsList.tsx, lines 690-723
calculateRepoScore(result) == Max(0, repoScoreSum(result))

\* Array.prototype.sort with (a, b) => calculateRepoScore(b) - calculateRepoScore(a):
\* a stable sort; result is put behind every element that does not score lower
RECURSIVE insertByScore(_, _)
insertByScore(sorted, result) ==
    IF sorted = <<>> THEN <<result>>
    ELSE IF calculateRepoScore(Head(sorted)) >= calculateRepoScore(result)
    THEN <<Head(sorted)>> \o insertByScore(Tail(sorted), result)
    ELSE <<result>> \o sorted

RECURSIVE sortByScore(_, _)
sortByScore(results, n) ==
    IF n = 0 THEN <<>>
    ELSE insertByScore(sortByScore(results, n - 1), results[n])

\* ResultsList.tsx, lines 853-855: results.sort(...), in place
sortInPlace(heap, ref) ==
    [heap EXCEPT ![ref] = sortByScore(heap[ref], Len(heap[ref]))]

\* ResultsList.tsx, lines 856 and 726-727: a card and the score of its badge
card(result) == [result |-> result, score |-> calculateRepoScore(result)]

(***************************************************************************)
(* DisplaySpec: a result set arrives in App and is rendered by ResultsList *)
(* under the filters the user picks.                                       *)
(***************************************************************************)
LanguageGo == <<"G", "o">>
LanguageC == <<"C">>
FilterGo == <<"g", "o">>

\* the fields applyFilters and calculateRepoScore read
listItem(id, type, language, stars, forks, watchers, openIssues, timestamp) ==
    [id |-> id, type |-> type, source |-> FullName(1), language |-> Val(language),
     stars |-> stars, forks |-> forks, watchers |-> watchers,
     openIssues |-> openIssues, timestamp |-> timestamp]

\* a recent repository; a stale one with many open issues; a code result of
\* today without repository data; one enriched with the data of the first
\* repository; a stale one without
Shown(n) ==
    CASE n = 1 -> listItem(1, "repository", LanguageGo,
                           Val(2), Val(1), Val(2), Val(5), Val(10))
      [] n = 2 -> listItem(2, "repository", LanguageC,
                           Val(0), Val(0), Val(0), Val(300), Val(400))
      [] n = 3 -> listItem(3, "code", LanguageC,
                           Undefined, Undefined, Undefined, Undefined, Val(0))
      [] n = 4 -> listItem(4, "code", LanguageGo,
                           Val(2), Val(1), Val(2), Val(5), Val(10))
      [] OTHER -> listItem(5, "code", LanguageGo,
                           Val(0), Undefined, Undefined, Undefined, Val(200))
ShownIds == 1..5

\* a single result of every combination of present and absent fields
ScoredAlone ==
    {listItem(6, "code", LanguageGo, st, fk, wa, oi, ts) :
        st \in {Undefined, Val(0), Val(7)},
        fk \in {Undefined, Val(3)},
        wa \in {Undefined, Val(2)},
        oi \in {Undefined, Val(0), Val(5), Val(150), Val(300)},
        ts \in {Undefined, Val(0), Val(10), Val(99), Val(101), Val(400)}}

\* the arrays fetchSearchResults resolves with
ResultLists ==
    {[i \in 1..Len(ids) |-> Shown(ids[i])] : ids \in DistinctSeqs(ShownIds, MaxShown) \ {<<>>}}
    \cup {<<r>> : r \in ScoredAlone}

DisplayChanges ==
    {<<"language", FilterGo>>, <<"language", AllChars>>,
     <<"type", "repository">>, <<"type", "all">>,
     <<"time", "week">>, <<"time", "all">>, <<"reset", "">>}

DisplayInit == AggIdle /\ SnIdle /\ UiIdle

\* App.tsx, lines 124-140: a filter picked in the FilterBar
HandleFilterChange(type, value) ==
    /\ filters' = handleFilterChange(filters, type, value)
    /\ UNCHANGED <<today, request, arrays, appResults, listResults, displayed>>
    /\ UNCHANGED <<aggVars, snVars, scVars, hlVars, opVars>>

\* App.tsx, line 70: setResults(data), the array of the first search
SetResults(data) ==
    /\ arrays = << <<>> >>
    /\ arrays' = <<data>>
    /\ appResults' = 1
    /\ UNCHANGED <<filters, today, request, listResults, displayed>>
    /\ UNCHANGED <<aggVars, snVars, scVars, hlVars, opVars>>

\* App.tsx, lines 201 and 480-485, ResultsList.tsx, lines 853-856: a render
Render ==
    LET filtered == applyFilters(arrays, appResults, filters)
        sorted == sortInPlace(filtered.heap, filtered.ref)
    IN  /\ arrays' = sorted
        /\ listResults' = filtered.ref
        /\ displayed' = [i \in 1..Len(sorted[filtered.ref]) |-> card(sorted[filtered.ref][i])]
        /\ UNCHANGED <<filters, today, request, appResults>>
        /\ UNCHANGED <<aggVars, snVars, scVars, hlVars, opVars>>

DisplayNext ==
    \/ \E change \in DisplayChanges : HandleFilterChange(change[1], change[2])
    \/ \E data \in ResultLists : SetResults(data)
    \/ Render

DisplaySpec == DisplayInit /\ [][DisplayNext]_vars

(***************************************************************************)
(* RequestSpec: the request App's handleSearch sends to the repository     *)
(* search endpoint under the filters the user picks.                       *)
(***************************************************************************)
\* obj[key] of a JavaScript object: undefined when it has no such property
Get(obj, key) == IF key \in DOMAIN obj THEN Val(obj[key]) ELSE Undefined

\* searchService.ts, lines 53-68: the switch on filters.timeRange
daysAgoOf(timeRange) ==
    CASE timeRange = Val("day") -> 1
      [] timeRange = Val("week") -> 7
      [] timeRange = Val("month") -> 30
      [] timeRange = Val("year") -> 365
      [] OTHER -> 0

\* a piece of the q parameter: the text it starts with and what follows
qualifier(prefix, value) == [prefix |-> prefix, value |-> value]

\* searchService.ts, lines 27-82: the q, sort and order parameters of the
\* URL; q is the sequence of its pieces, a date is the number of its UTC day
repoSearchRequest(query, f, now) ==
    LET language == Get(f, "language")
        sortBy == Get(f, "sortBy")
        timeRange == Get(f, "timeRange")
        daysAgo == daysAgoOf(timeRange)
    IN  [sent |-> TRUE,
         q |-> <<qualifier("", trim(query))>>
               \o (IF TruthyString(language) /\ language # Val(AllChars)
                   THEN <<qualifier(" language:", ValOf(language))>> ELSE <<>>)
               \o (IF timeRange # Val("all") /\ daysAgo > 0
                   THEN <<qualifier(" pushed:>", now - daysAgo)>> ELSE <<>>),
         sort |-> IF sortBy = Val("recent") THEN "updated"
                  ELSE IF sortBy = Val("relevance") THEN "score"
                  ELSE "stars",
         order |-> "desc"]

\* two consecutive days on which the app runs
Days == {20396, 20397}

RequestQueries == {QueryAbc, QueryPadded}

RequestChanges ==
    {<<"language", FilterGo>>, <<"language", AllChars>>,
     <<"time", "day">>, <<"time", "week">>, <<"time", "month">>, <<"time", "year">>,
     <<"time", "all">>,
     <<"sort", "recent">>, <<"sort", "relevance">>, <<"sort", "stars-desc">>,
     <<"reset", "">>}

RequestInit ==
    /\ filters = InitialFilters
    /\ today \in Days
    /\ request = NoRequest
    /\ arrays = << <<>> >>
    /\ appResults = 1
    /\ listResults = 0
    /\ displayed = <<>>
    /\ AggIdle
    /\ SnIdle
    /\ ScHlIdle

\* App.tsx, lines 58-69, searchService.ts, lines 362-386 and 20-94: a search
\* of a query that is not blank, up to the request of the repository search
HandleSearch(searchQuery) ==
    /\ trim(searchQuery) # <<>>
    /\ request' = repoSearchRequest(searchQuery, filters, today)
    /\ UNCHANGED <<filters, today, arrays, appResults, listResults, displayed>>
    /\ UNCHANGED <<aggVars, snVars, scVars, hlVars, opVars>>

RequestNext ==
    \/ \E change \in RequestChanges : HandleFilterChange(change[1], change[2])
    \/ \E searchQuery \in RequestQueries : HandleSearch(searchQuery)

RequestSpec == RequestInit /\ [][RequestNext]_vars

(***************************************************************************)
(* ResultsList: the highlight engine, createSearchRegex and                *)
(* getEnhancedCodeSnippet.                                                 *)
(***************************************************************************)
\* t => t.length > 0
NotEmpty(t) == t # <<>>

\* a pattern that ignores matchWholeWord
searchPatternNoBoundary(query, options) ==
    IF options.useRegex THEN query ELSE escapeRegExp(query)

\* lines 137-158: the pattern compiled for a query
searchPattern(query, options) ==
    IF options.useRegex THEN query
    ELSE LET escaped == escapeRegExp(query)
         IN  IF options.matchWholeWord
             THEN <<"\\", "b">> \o escaped \o <<"\\", "b">>
             ELSE LET terms == SelectSeq(SplitWS(escaped), NotEmpty)
                  IN  IF Len(terms) > 1
                      THEN <<"(">> \o Join(terms, <<"|">>) \o <<")">>
                      ELSE escaped

\* null: no regex to search with
NoMatcher == [threw |-> FALSE, matcher |-> FALSE, re |-> RegExp(<<>>, FALSE)]

\* createSearchRegex without its try/catch
createSearchRegexUncaught(query, options) ==
    IF trim(query) = <<>> THEN NoMatcher
    ELSE LET re == RegExp(searchPattern(query, options), ~options.matchCase)
         IN  [threw |-> ~re.ok, matcher |-> re.ok, re |-> re]

\* lines 133-166: the g (or gi) regex of a query, or null
createSearchRegex(query, options) ==
    IF trim(query) = <<>> THEN NoMatcher
    ELSE LET re == RegExp(searchPattern(query, options), ~options.matchCase)
         IN  IF re.ok THEN [threw |-> FALSE, matcher |-> TRUE, re |-> re]
             ELSE NoMatcher

\* the first position from pos on at which the regex matches, or -1
RECURSIVE firstMatch(_, _, _)
firstMatch(re, text, pos) ==
    IF pos > Len(text) + 1 THEN -1
    ELSE IF MatchAt(re, text, pos) # -1 THEN pos
    ELSE firstMatch(re, text, pos + 1)

\* RegExp.prototype.test of a regex with the g flag: the search starts at
\* lastIndex (counted from 0) and leaves lastIndex behind the match, or at 0
testGlobal(re, text, lastIndex) ==
    LET q == firstMatch(re, text, lastIndex + 1)
    IN  IF q = -1 THEN [found |-> FALSE, lastIndex |-> 0]
        ELSE [found |-> TRUE, lastIndex |-> MatchAt(re, text, q) - 1]

\* the matches String.prototype.replace substitutes for a g regex, each as
\* <<first position, position behind the last>>
RECURSIVE matchSpans(_, _, _)
matchSpans(re, text, pos) ==
    LET q == firstMatch(re, text, pos)
        e == MatchAt(re, text, q)
    IN  IF q = -1 THEN <<>>
        ELSE <<(<<q, e>>)>> \o matchSpans(re, text, IF e = q THEN q + 1 ELSE e)

\* lineNumbers[idx]
lineNumberAt(lineNumbers, idx) ==
    IF idx <= Len(lineNumbers) THEN Val(lineNumbers[idx]) ELSE Undefined

\* a filter that keeps every line
rendersLineAlways(options, isMatchingLine) == TRUE

\* lines 348-351: whether the line is rendered
rendersLine(options, isMatchingLine) ==
    ~(options.highlightMatchesOnly /\ ~isMatchingLine)

\* lines 333-379: lines.map(...).filter(Boolean) from idx on, rows being
\* the rows of the lines before; the rows rendered and the lastIndex the
\* regex is left with
RECURSIVE processLines(_, _, _, _, _, _, _)
processLines(searchRegex, options, lines, lineNumbers, idx, lastIndex, rows) ==
    IF idx > Len(lines) THEN [rows |-> rows, lastIndex |-> lastIndex]
    ELSE
    LET lineNum == lineNumberAt(lineNumbers, idx)
        tested == IF searchRegex.matcher
                  THEN testGlobal(searchRegex.re, lines[idx], lastIndex)
                  ELSE [found |-> FALSE, lastIndex |-> lastIndex]
        isMatchingLine == tested.found
    IN  IF lineNum = Val(-1)
        THEN \* a separator is returned before the test
             processLines(searchRegex, options, lines, lineNumbers, idx + 1, lastIndex,
                 Append(rows, [kind |-> "separator", idx |-> idx, lineNum |-> lineNum,
                               highlighted |-> FALSE, marks |-> <<>>]))
        ELSE IF ~rendersLine(options, isMatchingLine)
        THEN processLines(searchRegex, options, lines, lineNumbers, idx + 1,
                          tested.lastIndex, rows)
        ELSE \* a matching line resets lastIndex before the replace, which
             \* leaves it at 0
             processLines(searchRegex, options, lines, lineNumbers, idx + 1,
                 IF isMatchingLine THEN 0 ELSE tested.lastIndex,
                 Append(rows, [kind |-> "line", idx |-> idx, lineNum |-> lineNum,
                               highlighted |-> isMatchingLine,
                               marks |-> IF isMatchingLine
                                         THEN matchSpans(searchRegex.re, lines[idx], 1)
                                         ELSE <<>>]))

\* lines 382-383: lines.filter(...).length from idx on, with the same regex
RECURSIVE countMatchingLines(_, _, _, _, _)
countMatchingLines(searchRegex, lines, lineNumbers, idx, lastIndex) ==
    IF idx > Len(lines) THEN 0
    ELSE IF lineNumberAt(lineNumbers, idx) = Val(-1)
    THEN countMatchingLines(searchRegex, lines, lineNumbers, idx + 1, lastIndex)
    ELSE LET tested == testGlobal(searchRegex.re, lines[idx], lastIndex)
         IN  (IF tested.found THEN 1 ELSE 0)
             + countMatchingLines(searchRegex, lines, lineNumbers, idx + 1,
                                  tested.lastIndex)

\* lines 310-383, for a code result that has a snippet and lineNumbers
getEnhancedCodeSnippet(result, query, options) ==
    LET searchRegex == createSearchRegex(query, options)
        lines == SplitNL(result.snippet)
        processed == processLines(searchRegex, options, lines, result.lineNumbers,
                                  1, 0, <<>>)
    IN  IF searchRegex.threw THEN [threw |-> TRUE, rows |-> <<>>, matchCount |-> 0]
        ELSE [threw |-> FALSE,
              rows |-> processed.rows,
              matchCount |-> IF searchRegex.matcher
                             THEN countMatchingLines(searchRegex, lines,
                                                     result.lineNumbers, 1,
                                                     processed.lastIndex)
                             ELSE 0]

(***************************************************************************)
(* HighlightSpec: a code result rendered by getEnhancedCodeSnippet under   *)
(* the search options the user toggles.                                    *)
(***************************************************************************)
\* "concatenate cat" and "Cat c++"
LineConcatenate ==
    <<"c", "o", "n", "c", "a", "t", "e", "n", "a", "t", "e", " ", "c", "a", "t">>
LineCatCpp == <<"C", "a", "t", " ", "c", "+", "+">>
HlLines == {LineConcatenate, LineCatCpp}

\* cat; c++, no regular expression; two terms; ca+t, a regular expression
\* that matches cat; no query
QueryCat == <<"c", "a", "t">>
QueryCatCpp == <<"c", "a", "t", " ", "c", "+", "+">>
QueryCaPlusT == <<"c", "a", "+", "t">>
HlQueries == {QueryCat, QueryCpp, QueryCatCpp, QueryCaPlusT, QueryEmpty}

\* the rows the snippet builder produces: runs of lines with one separator
\* between two runs
HlRowSeqs ==
    {rows \in UNION {[1..n -> HlLines \cup {Separator}] : n \in 1..MaxRows} :
        /\ rows[1] # Separator
        /\ rows[Len(rows)] # Separator
        /\ \A i \in 1..(Len(rows) - 1) : ~(rows[i] = Separator /\ rows[i + 1] = Separator)}

\* their line numbers: consecutive within a run, -1 for a separator, which
\* stands for two lines left out
RECURSIVE rowNumbers(_, _, _)
rowNumbers(rows, i, next) ==
    IF i > Len(rows) THEN <<>>
    ELSE IF rows[i] = Separator THEN <<-1>> \o rowNumbers(rows, i + 1, next + 2)
    ELSE <<next>> \o rowNumbers(rows, i + 1, next + 1)

HlSnippets ==
    {[snippet |-> Join(rows, <<"\n">>), lineNumbers |-> rowNumbers(rows, 1, 1)] :
        rows \in HlRowSeqs}

OptionNames == {"matchWholeWord", "matchCase", "useRegex", "highlightMatchesOnly"}

HlInit ==
    /\ hlPc = "ready"
    /\ hlQuery \in HlQueries
    /\ hlOptions = InitialOptions
    /\ hlSnippet \in HlSnippets
    /\ hlRows = <<>>
    /\ hlCount = 0
    /\ AggIdle
    /\ SnIdle
    /\ ScAppIdle

\* line 964: the code result rendered under options; an exception leaves
\* no panel
renderWith(options) ==
    \E panel \in {getEnhancedCodeSnippet(hlSnippet, hlQuery, options)} :
        /\ hlPc' = IF panel.threw THEN "threw" ELSE "rendered"
        /\ hlRows' = panel.rows
        /\ hlCount' = panel.matchCount

\* the first render of the list
RenderSnippet ==
    /\ hlPc = "ready"
    /\ renderWith(hlOptions)
    /\ UNCHANGED <<hlQuery, hlOptions, hlSnippet>>
    /\ UNCHANGED <<aggVars, snVars, scVars, appVars, opVars>>

\* lines 125-130: a search option toggled in the rendered list, and the
\* render the new state brings
ToggleOption(option) ==
    /\ hlPc = "rendered"
    /\ hlOptions' = [hlOptions EXCEPT ![option] = ~hlOptions[option]]
    /\ renderWith(hlOptions')
    /\ UNCHANGED <<hlQuery, hlSnippet>>
    /\ UNCHANGED <<aggVars, snVars, scVars, appVars, opVars>>

HlNext ==
    \/ \E option \in OptionNames : ToggleOption(option)
    \/ RenderSnippet

HighlightSpec == HlInit /\ [][HlNext]_vars

(***************************************************************************)
(* search-service.ts: saveSearchHistory over the tables of the database.   *)
(***************************************************************************)
\* a JavaScript value passed where a string is declared
Str(chars) == [type |-> "string", value |-> chars]
Obj(fields) == [type |-> "object", value |-> fields]

startsWith(s, prefix) == Len(s) >= Len(prefix) /\ SubSeq(s, 1, Len(prefix)) = prefix

ClerkPrefix == <<"u", "s", "e", "r", "_">>
\* the id Clerk gives the user, and the id of row n of the users table
ClerkId == ClerkPrefix \o <<"1">>
Uuid(n) == <<"i", "d", "-", Digit(n)>>

ClerkRows(table, clerkId) == {i \in 1..Len(table) : table[i].clerk_id = clerkId}

\* .select(..).eq('clerk_id', clerkId).single(): the row when there is
\* exactly one, otherwise an error and no data
single(table, clerkId) ==
    LET rows == ClerkRows(table, clerkId)
    IN  IF Cardinality(rows) = 1
        THEN [error |-> FALSE, data |-> Val(table[CHOOSE i \in rows : TRUE])]
        ELSE [error |-> TRUE, data |-> Null]

\* .from('users').insert(row): refused when the request fails, or when the
\* table holds the clerk_id already and keeps it unique
insertUser(unique, table, clerkId, fails) ==
    LET refused == fails \/ (unique /\ ClerkRows(table, clerkId) # {})
        row == [id |-> Uuid(Len(table) + 1), clerk_id |-> clerkId]
    IN  [error |-> refused,
         table |-> IF refused THEN table ELSE Append(table, row),
         data |-> IF refused THEN Null ELSE Val(row)]

\* what the requests of one call of saveSearchHistory end with
SaveFaults ==
    [lookup : {"ok", "error", "throws"}, createUser : {"ok", "error"},
     insertHistory : {"ok", "error"}, rpc : {"ok", "throws"}]

Database(unique, users, history, rpcs) ==
    [unique |-> unique, users |-> users, history |-> history, increments |-> rpcs]

\* lines 8-70: the body of the try block; threw: an exception left it
saveSearchHistoryBody(db, userId, query, faults) ==
    IF userId.type # "string"
    THEN [db |-> db, threw |-> TRUE]       \* line 11: startsWith is no function
    ELSE
    LET isClerkId == startsWith(userId.value, ClerkPrefix)
        existingUser == single(db.users, userId.value)
        missing == faults.lookup = "error" \/ existingUser.error
        newUser == insertUser(db.unique, db.users, userId.value,
                              faults.createUser = "error")
        users == IF isClerkId /\ missing THEN newUser.table ELSE db.users
        databaseUserId ==
            IF ~isClerkId THEN userId.value
            ELSE IF missing THEN ValOf(newUser.data).id
            ELSE ValOf(existingUser.data).id
        row == [user_id |-> databaseUserId, query |-> query]
    IN  IF isClerkId /\ faults.lookup = "throws"
        THEN [db |-> db, threw |-> TRUE]
        ELSE IF isClerkId /\ missing /\ newUser.error
        THEN [db |-> db, threw |-> FALSE]                           \* line 40
        ELSE IF faults.insertHistory = "error"
        THEN [db |-> [db EXCEPT !.users = users], threw |-> FALSE]  \* line 60
        ELSE [db |-> [db EXCEPT !.users = users,
                                !.history = Append(@, row),
                                !.increments = Append(@, databaseUserId)],
              threw |-> FALSE]               \* lines 64-70: a throw is caught

saveSearchHistoryUncaught(db, userId, query, faults) ==
    LET body == saveSearchHistoryBody(db, userId, query, faults)
    IN  [db |-> body.db, rejected |-> body.threw]

\* lines 6-75: the promise never rejects, the catch on line 72 logs only
saveSearchHistory(db, userId, query, faults) ==
    LET body == saveSearchHistoryBody(db, userId, query, faults)
    IN  [db |-> body.db, rejected |-> FALSE]

(***************************************************************************)
(* SearchSpec: the calls of App's handleSearch, overlapping when a search  *)
(* is submitted or a filter changed before the last one ended, and a call  *)
(* of fetchSearchResults by itself.                                        *)
(* HistorySpec: the calls of handleSearch with the history they save, and  *)
(* calls of saveSearchHistory by itself.                                   *)
(***************************************************************************)
PleaseEnterQuery == <<"Please enter a search query">>
NoResultsFound ==
    <<"No results found. Try different search terms or check your filters.">>
SearchFailed == <<"Search failed. Please try again.">>

isEmptyString(searchQuery) == searchQuery = <<>>

\* App.tsx, line 59: !searchQuery || searchQuery.trim().length === 0
isBlank(searchQuery) == searchQuery = <<>> \/ trim(searchQuery) = <<>>

\* what fetchSearchResults resolves with for a query: results that name it
found(searchQuery) == <<[id |-> 1, title |-> searchQuery]>>

\* the messages fetchSearchResults rejects a query that is not blank with
BothSearchesFailed ==
    <<"Search failed: ", "Repository search: ",
      "Network error. Please check your internet connection.", "; ",
      "Code search: ", "Network error. Please check your internet connection.">>
SearchErrors == {NoResultsMessage, BothSearchesFailed}

SearchQueries == {QueryAbc, QueryGo, QueryBlank, QueryEmpty}
SearchChanges == {<<"type", "code">>, <<"reset", "">>}

\* App.tsx, lines 79-84: the only argument handleSearch passes
historyArgument(searchQuery) == Obj([user_id |-> ClerkId, query |-> searchQuery])

UserRow == [id |-> Uuid(1), clerk_id |-> ClerkId]

SearchInit ==
    /\ AggIdle /\ SnIdle /\ ScIdle /\ AppIdle /\ HlIdle
    /\ FbIdle /\ UsIdle /\ NtIdle
    /\ user \in {Null, Val(ClerkId)}
    /\ appQuery = <<>>
    /\ appLoading = FALSE
    /\ appError = Null
    /\ calls = <<>>
    /\ uniqueClerkId \in BOOLEAN
    /\ usersTable \in {<<>>, <<UserRow>>}
    /\ searchHistory = <<>>
    /\ increments = <<>>

\* App.tsx, lines 59-69: handleSearch up to its await of fetchSearchResults
startSearch(searchQuery, f) ==
    IF isBlank(searchQuery)
    THEN /\ appError' = Val(PleaseEnterQuery)
         /\ UNCHANGED <<appLoading, appQuery, calls, request>>
    ELSE /\ Len(calls) < MaxSearches
         /\ appLoading' = TRUE
         /\ appError' = Null
         /\ appQuery' = searchQuery
         /\ calls' = Append(calls, [pc |-> "fetching", searchQuery |-> searchQuery])
         /\ request' = repoSearchRequest(searchQuery, f, today)

\* App.tsx, lines 58-69: a query submitted from the search bar
SearchSubmitted(searchQuery) ==
    /\ startSearch(searchQuery, filters)
    /\ UNCHANGED <<user, filters, today, arrays, appResults, listResults, displayed>>
    /\ UNCHANGED <<aggVars, snVars, scVars, hlVars, dbVars, fbVars, usVars, ntVars>>

\* App.tsx, lines 124-140 and 195-199: a filter picked; the effect searches
\* the query again when there is one
FiltersChanged(type, value) ==
    /\ filters' = handleFilterChange(filters, type, value)
    /\ IF appQuery # <<>>
       THEN startSearch(appQuery, filters')
       ELSE UNCHANGED <<appLoading, appError, appQuery, calls, request>>
    /\ UNCHANGED <<user, today, arrays, appResults, listResults, displayed>>
    /\ UNCHANGED <<aggVars, snVars, scVars, hlVars, dbVars, fbVars, usVars, ntVars>>

resultsOfLatest(shown, isLatest, data) == IF isLatest THEN data ELSE shown

\* App.tsx, line 70: setResults(data), whether or not the call is the latest
resultsAfter(shown, isLatest, data) == data

\* App.tsx, lines 69-88 and 94-96: fetchSearchResults resolved for call c
FetchResolves(c, data) ==
    /\ calls[c].pc = "fetching"
    /\ arrays' = <<resultsAfter(arrays[appResults], c = Len(calls), data)>>
    /\ appResults' = 1
    /\ appError' = IF Len(data) = 0 THEN Val(NoResultsFound) ELSE appError
    /\ IF user # Null
       THEN /\ calls' = [calls EXCEPT ![c].pc = "saving"]
            /\ UNCHANGED appLoading
       ELSE /\ calls' = [calls EXCEPT ![c].pc = "done"]
            /\ appLoading' = FALSE
    /\ UNCHANGED <<user, appQuery, filters, today, request, listResults, displayed>>
    /\ UNCHANGED <<aggVars, snVars, scVars, hlVars, dbVars, fbVars, usVars, ntVars>>

\* App.tsx, lines 89-96: fetchSearchResults rejected for call c
FetchRejects(c, message) ==
    /\ calls[c].pc = "fetching"
    /\ appError' = Val(IF message # <<>> THEN message ELSE SearchFailed)
    /\ arrays' = << <<>> >>
    /\ appResults' = 1
    /\ appLoading' = FALSE
    /\ calls' = [calls EXCEPT ![c].pc = "done"]
    /\ UNCHANGED <<user, appQuery, filters, today, request, listResults, displayed>>
    /\ UNCHANGED <<aggVars, snVars, scVars, hlVars, dbVars, fbVars, usVars, ntVars>>

\* App.tsx, lines 77-96: the saveSearchHistory call of call c ended; a
\* rejection is caught on line 85
HistorySaved(c, faults) ==
    /\ calls[c].pc = "saving"
    /\ \E saved \in {saveSearchHistory(
                        Database(uniqueClerkId, usersTable, searchHistory, increments),
                        historyArgument(calls[c].searchQuery), Undefined, faults)} :
          /\ usersTable' = saved.db.users
          /\ searchHistory' = saved.db.history
          /\ increments' = saved.db.increments
    /\ appLoading' = FALSE
    /\ calls' = [calls EXCEPT ![c].pc = "done"]
    /\ UNCHANGED <<user, appQuery, appError, uniqueClerkId>>
    /\ UNCHANGED <<aggVars, snVars, scVars, appVars, hlVars, fbVars, usVars, ntVars>>

\* the ids saveSearchHistory is called with by itself: a Clerk id, the id
\* of a row of the users table, and the object handleSearch passes
SaveUserIds == <<Str(ClerkId), Str(Uuid(1)), historyArgument(QueryAbc)>>

\* search-service.ts, lines 6-75: saveSearchHistory called by itself
SaveSearchHistory(userId, searchQuery, faults) ==
    /\ Len(searchHistory) < MaxHistory
    /\ Len(usersTable) < MaxUsers
    /\ \E saved \in {saveSearchHistory(
                        Database(uniqueClerkId, usersTable, searchHistory, increments),
                        userId, searchQuery, faults)} :
          /\ usersTable' = saved.db.users
          /\ searchHistory' = saved.db.history
          /\ increments' = saved.db.increments
    /\ UNCHANGED <<srVars, uniqueClerkId>>
    /\ UNCHANGED <<aggVars, snVars, scVars, appVars, hlVars, fbVars, usVars, ntVars>>

SearchNext ==
    \/ \E searchQuery \in SearchQueries : SearchSubmitted(searchQuery)
    \/ \E change \in SearchChanges : FiltersChanged(change[1], change[2])
    \/ \E c \in 1..Len(calls) : FetchResolves(c, found(calls[c].searchQuery))
    \/ \E c \in 1..Len(calls), message \in SearchErrors : FetchRejects(c, message)
    \/ \E c \in 1..Len(calls), faults \in SaveFaults : HistorySaved(c, faults)
    \/ \E q \in AggQueries : FetchSearchResults(q)

SearchSpec == SearchInit /\ [][SearchNext]_vars

HistoryQueries == {QueryAbc, QueryBlank}

HistoryNext ==
    \/ \E searchQuery \in HistoryQueries : SearchSubmitted(searchQuery)
    \/ \E c \in 1..Len(calls) : FetchResolves(c, found(calls[c].searchQuery))
    \/ \E c \in 1..Len(calls), message \in SearchErrors : FetchRejects(c, message)
    \/ \E c \in 1..Len(calls), faults \in SaveFaults : HistorySaved(c, faults)
    \/ \E k \in 1..Len(SaveUserIds), faults \in SaveFaults :
          SaveSearchHistory(SaveUserIds[k], Val(QueryGo), faults)

HistorySpec == SearchInit /\ [][HistoryNext]_vars

(***************************************************************************)
(* FeedbackSpec: updateFeedbackStatus and deleteFeedback of the feedback   *)
(* service, called for admins and for others.                              *)
(***************************************************************************)
UpdateDenied == <<"Permission denied: Only admins can update feedback status">>
DeleteDenied == <<"Permission denied: Only admins can delete feedback">>
\* the error of a request the database refused
RequestError == <<"request failed">>

permitsAnyone(isAdmin) == TRUE

\* search-service.ts, lines 209 and 227: if (!isAdmin) throw
permits(isAdmin) == isAdmin

\* .update({ status }).eq('id', id)
updateRows(table, id, status) ==
    [i \in 1..Len(table) |->
        IF table[i].id = id THEN [table[i] EXCEPT !.status = status] ELSE table[i]]

\* .delete().eq('id', id)
deleteRows(table, id) == SelectSeq(table, LAMBDA row : row.id # id)

\* lines 208-242: a call that changes the table to changed when the
\* request is not refused; denied is the message for those who are no admin
feedbackCall(table, requests, changed, denied, isAdmin, fails) ==
    IF ~permits(isAdmin)
    THEN [table |-> table, requests |-> requests, outcome |-> Reject(denied)]
    ELSE [table |-> IF fails THEN table ELSE changed,
          requests |-> requests + 1,
          outcome |-> IF fails THEN Reject(RequestError) ELSE Resolve(<<>>)]

FeedbackIds == 1..MaxFeedback
FeedbackStatuses == {"resolved", "unresolved"}

FeedbackInit ==
    /\ AggIdle /\ SnIdle /\ ScIdle /\ AppIdle /\ HlIdle
    /\ SrIdle /\ DbIdle /\ UsIdle /\ NtIdle
    /\ feedbackTable = [i \in FeedbackIds |-> [id |-> i, status |-> "new"]]
    /\ fbRequests = 0
    /\ fbOutcome = NoOutcome

FeedbackCalled(ended) ==
    /\ fbRequests < MaxRequests
    /\ feedbackTable' = ended.table
    /\ fbRequests' = ended.requests
    /\ fbOutcome' = ended.outcome
    /\ UNCHANGED <<aggVars, snVars, scVars, appVars, hlVars>>
    /\ UNCHANGED <<srVars, dbVars, usVars, ntVars>>

\* search-service.ts, lines 208-224
UpdateFeedbackStatus(id, status, isAdmin, fails) ==
    FeedbackCalled(feedbackCall(feedbackTable, fbRequests,
                                updateRows(feedbackTable, id, status),
                                UpdateDenied, isAdmin, fails))

\* search-service.ts, lines 226-242
DeleteFeedback(id, isAdmin, fails) ==
    FeedbackCalled(feedbackCall(feedbackTable, fbRequests,
                                deleteRows(feedbackTable, id),
                                DeleteDenied, isAdmin, fails))

FeedbackNext ==
    \/ \E id \in FeedbackIds, status \in FeedbackStatuses, isAdmin, fails \in BOOLEAN :
          UpdateFeedbackStatus(id, status, isAdmin, fails)
    \/ \E id \in FeedbackIds, isAdmin, fails \in BOOLEAN :
          DeleteFeedback(id, isAdmin, fails)

FeedbackSpec == FeedbackInit /\ [][FeedbackNext]_vars

(***************************************************************************)
(* UserSyncSpec: the first load of a user who signed in for the first      *)
(* time: the effects of useUserSync and of Notifications, each of which    *)
(* looks the user row up and inserts it when it found none, run            *)
(* concurrently; every await is a step.                                    *)
(***************************************************************************)
WelcomeTitle == "Welcome to SearchCenter"

\* a row of the notifications table
notification(id, userId, type, read, title) ==
    [id |-> id, user_id |-> userId, type |-> type, read |-> read, title |-> title]

UserSyncInit ==
    /\ AggIdle /\ SnIdle /\ ScIdle /\ AppIdle /\ HlIdle /\ FbIdle /\ NtIdle
    /\ user = Val(ClerkId)
    /\ appQuery = <<>>
    /\ appLoading = FALSE
    /\ appError = Null
    /\ calls = <<>>
    /\ uniqueClerkId \in BOOLEAN
    /\ usersTable = <<>>
    /\ searchHistory = <<>>
    /\ increments = <<>>
    /\ notifTable = <<>>
    /\ runs = <<>>

RunStarts(path) ==
    /\ Len(runs) < MaxRuns
    /\ runs' = Append(runs, [path |-> path, pc |-> "lookup"])
    /\ UNCHANGED <<notifTable, usersTable>>
    /\ UNCHANGED <<aggVars, snVars, scVars, appVars, hlVars>>
    /\ UNCHANGED <<srVars, uniqueClerkId, searchHistory, increments, fbVars, ntVars>>

RunSteps(r, path, from, to, users, rows) ==
    /\ runs[r] = [path |-> path, pc |-> from]
    /\ runs' = [runs EXCEPT ![r].pc = to]
    /\ usersTable' = users
    /\ notifTable' = rows
    /\ UNCHANGED <<aggVars, snVars, scVars, appVars, hlVars>>
    /\ UNCHANGED <<srVars, uniqueClerkId, searchHistory, increments, fbVars, ntVars>>

\* part_004 (hooks/useUserSync), lines 12-36 and 95: the effect runs and
\* sends its lookup
UseUserSync ==
    /\ user # Null
    /\ RunStarts("sync")

\* lines 32-43: the lookup answers; no row, or more than one, is no user
SyncLooksUp(r) ==
    RunSteps(r, "sync", "lookup",
             IF single(usersTable, ClerkId).data # Null THEN "update" ELSE "insert",
             usersTable, notifTable)

\* lines 43-60: the update of last_signed_in answers
SyncUpdates(r) == RunSteps(r, "sync", "update", "done", usersTable, notifTable)

\* lines 61-72: the insert of the user row answers
SyncInserts(r) ==
    LET inserted == insertUser(uniqueClerkId, usersTable, ClerkId, FALSE)
    IN  RunSteps(r, "sync", "insert", IF inserted.error THEN "done" ELSE "welcome",
                 inserted.table, notifTable)

\* lines 73-88: the insert of the welcome notification answers
SyncWelcomes(r) ==
    RunSteps(r, "sync", "welcome", "done", usersTable,
             Append(notifTable,
                    notification(Len(notifTable) + 1, Val(ClerkId), "system", FALSE,
                                 WelcomeTitle)))

\* Notifications.tsx, lines 40-52 and 77: the effect runs and sends its lookup
EnsureUserInDatabase ==
    /\ user # Null
    /\ RunStarts("ensure")

\* Notifications.tsx, lines 48-54: the lookup answers
EnsureLooksUp(r) ==
    LET existing == single(usersTable, ClerkId)
    IN  RunSteps(r, "ensure", "lookup",
                 IF existing.error \/ existing.data = Null THEN "insert" ELSE "done",
                 usersTable, notifTable)

\* Notifications.tsx, lines 55-71: the insert answers; its error is not read
EnsureInserts(r) ==
    RunSteps(r, "ensure", "insert", "done",
             insertUser(uniqueClerkId, usersTable, ClerkId, FALSE).table, notifTable)

UserSyncNext ==
    \/ UseUserSync
    \/ EnsureUserInDatabase
    \/ \E r \in 1..Len(runs) : SyncLooksUp(r)
    \/ \E r \in 1..Len(runs) : SyncUpdates(r)
    \/ \E r \in 1..Len(runs) : SyncInserts(r)
    \/ \E r \in 1..Len(runs) : SyncWelcomes(r)
    \/ \E r \in 1..Len(runs) : EnsureLooksUp(r)
    \/ \E r \in 1..Len(runs) : EnsureInserts(r)

UserSyncSpec == UserSyncInit /\ [][UserSyncNext]_vars

(***************************************************************************)
(* NotificationsSpec: the Notifications component of a signed-in user who  *)
(* is no admin: refresh and load more, the realtime INSERT events of the   *)
(* user channel and of the system channel, markAsRead and markAllAsRead;   *)
(* every await is a step.                                                  *)
(***************************************************************************)
\* Notifications.tsx, line 31
pageSize == 10

\* lines 90-101: the rows the query of a user who is no admin selects,
\* newest first
visibleRows(table) ==
    LET own == SelectSeq(table, LAMBDA row : row.user_id = Val(ClerkId))
    IN  [i \in 1..Len(own) |-> own[Len(own) + 1 - i]]

\* line 94: .range(from, to), both 0-based and inclusive
range(rows, from, to) == SubSeq(rows, from + 1, Min(to + 1, Len(rows)))

\* lines 126 and 269: filter(n => !n.read).length
unread(list) == Cardinality({i \in 1..Len(list) : ~list[i].read})

listIds(list) == {list[i].id : i \in 1..Len(list)}

\* line 86: const currentPage = refresh ? 0 : page
currentPageOf(refresh, statePage) == IF refresh THEN 0 ELSE statePage

\* rows 1..n as the table holds them when the component mounts: the even
\* ones read
storedRows(n) ==
    [i \in 1..n |-> notification(i, Val(ClerkId), "feedback_response", i % 2 = 0, "Reply")]

RealtimeTitle == "Realtime"
Realtime(table) == {i \in 1..Len(table) : table[i].title = RealtimeTitle}

\* the notifications inserted while the component is mounted: one of the
\* user, an announcement to everyone, a system notification of the user
InsertKinds ==
    {[user_id |-> Val(ClerkId), type |-> "feedback_response"],
     [user_id |-> Null, type |-> "announcement"],
     [user_id |-> Val(ClerkId), type |-> "system"]}

\* lines 140-151 and 170-177: the channels whose filter an inserted row passes
channelsOf(row) ==
    (IF row.user_id = Val(ClerkId) THEN {"user"} ELSE {})
    \cup (IF row.type \in {"announcement", "system"} THEN {"system"} ELSE {})

\* lines 134-137: mounted; the effect has called fetchNotifications(true)
NtInit ==
    /\ AggIdle /\ SnIdle /\ ScIdle /\ AppIdle /\ HlIdle /\ FbIdle /\ DbIdle
    /\ user = Val(ClerkId)
    /\ appQuery = <<>>
    /\ appLoading = FALSE
    /\ appError = Null
    /\ calls = <<>>
    /\ notifTable \in {storedRows(n) : n \in {1, MaxStored}}
    /\ runs = <<>>
    /\ notifications = <<>>
    /\ unreadCount = 0
    /\ page = 0
    /\ hasMore = TRUE
    /\ ntLoading = TRUE
    /\ fetches = <<[refresh |-> TRUE, currentPage |-> 0, closure |-> <<>>,
                    pc |-> "pending"]>>
    /\ deliveries = {}
    /\ reads = <<>>

\* lines 80-104, 486 and 564: the bell opened (refresh), or Load more
\* pressed, which is there when hasMore and enabled when not loading
FetchNotifications(refresh) ==
    /\ Len(fetches) < MaxFetches
    /\ refresh \/ (hasMore /\ ~ntLoading)
    /\ ntLoading' = TRUE
    /\ fetches' = Append(fetches, [refresh |-> refresh,
                                   currentPage |-> currentPageOf(refresh, page),
                                   closure |-> notifications, pc |-> "pending"])
    /\ UNCHANGED <<notifications, unreadCount, page, hasMore, deliveries, reads>>
    /\ UNCHANGED <<aggVars, snVars, scVars, appVars, hlVars>>
    /\ UNCHANGED <<srVars, dbVars, fbVars, usVars>>

\* lines 104-131: the query of call f answers
FetchReturns(f, fails) ==
    /\ fetches[f].pc = "pending"
    /\ fetches' = [fetches EXCEPT ![f] = [@ EXCEPT !.pc = "done", !.closure = <<>>]]
    /\ ntLoading' = FALSE
    /\ IF fails
       THEN UNCHANGED <<notifications, unreadCount, page, hasMore>>
       ELSE LET data == range(visibleRows(notifTable),
                              fetches[f].currentPage * pageSize,
                              (fetches[f].currentPage + 1) * pageSize - 1)
            IN  /\ notifications' = IF fetches[f].refresh THEN data
                                    ELSE notifications \o data
                /\ page' = IF fetches[f].refresh THEN 0 ELSE page + 1
                /\ hasMore' = (Len(data) = pageSize)
                /\ unreadCount' = unread(IF fetches[f].refresh THEN data
                                         ELSE fetches[f].closure \o data)
    /\ UNCHANGED <<deliveries, reads>>
    /\ UNCHANGED <<aggVars, snVars, scVars, appVars, hlVars>>
    /\ UNCHANGED <<srVars, dbVars, fbVars, usVars>>

\* a row is inserted into the notifications table; the database sends an
\* INSERT event to every channel whose filter it passes
RowInserted(kind) ==
    /\ Cardinality(Realtime(notifTable)) < MaxInserts
    /\ LET row == notification(Len(notifTable) + 1, kind.user_id, kind.type, FALSE,
                               RealtimeTitle)
       IN  /\ notifTable' = Append(notifTable, row)
           /\ deliveries' = deliveries \cup
                  {[channel |-> ch, row |-> row] : ch \in channelsOf(row)}
    /\ UNCHANGED <<runs, notifications, unreadCount, page, hasMore, ntLoading,
                   fetches, reads>>
    /\ UNCHANGED <<aggVars, snVars, scVars, appVars, hlVars>>
    /\ UNCHANGED <<srVars, dbVars, fbVars>>

\* lines 147-151: the handler of the user channel
UserChannelReceives(d) ==
    /\ d.channel = "user"
    /\ deliveries' = deliveries \ {d}
    /\ notifications' = <<d.row>> \o notifications
    /\ unreadCount' = unreadCount + 1
    /\ UNCHANGED <<page, hasMore, ntLoading, fetches, reads>>
    /\ UNCHANGED <<aggVars, snVars, scVars, appVars, hlVars>>
    /\ UNCHANGED <<srVars, dbVars, fbVars, usVars>>

\* lines 177-192: the handler of the system channel
SystemChannelReceives(d) ==
    /\ d.channel = "system"
    /\ deliveries' = deliveries \ {d}
    /\ IF d.row.user_id = Null \/ d.row.user_id = user
       THEN /\ notifications' = IF d.row.id \in listIds(notifications)
                                THEN notifications
                                ELSE <<d.row>> \o notifications
            /\ unreadCount' = unreadCount + 1
       ELSE UNCHANGED <<notifications, unreadCount>>
    /\ UNCHANGED <<page, hasMore, ntLoading, fetches, reads>>
    /\ UNCHANGED <<aggVars, snVars, scVars, appVars, hlVars>>
    /\ UNCHANGED <<srVars, dbVars, fbVars, usVars>>

\* .update({ read: true }) of the rows whose id is in ids
readRows(table, ids) ==
    [i \in 1..Len(table) |->
        IF table[i].id \in ids THEN [table[i] EXCEPT !.read = TRUE] ELSE table[i]]

\* the notifications whose button is pressed: the first ones of the list
Pressed(list) == {list[i].id : i \in 1..Min(MaxReads, Len(list))}

ReadRequested(all, ids) ==
    /\ Len(reads) < MaxReads
    /\ notifTable' = readRows(notifTable, ids)
    /\ reads' = Append(reads, [all |-> all, ids |-> ids, pc |-> "pending"])
    /\ UNCHANGED <<runs, notifications, unreadCount, page, hasMore, ntLoading,
                   fetches, deliveries>>
    /\ UNCHANGED <<aggVars, snVars, scVars, appVars, hlVars>>
    /\ UNCHANGED <<srVars, dbVars, fbVars>>

\* lines 231-242 and 378: the button of a notification, read or not
MarkAsRead(id) ==
    /\ id \in listIds(notifications)
    /\ ReadRequested(FALSE, {id})

\* lines 261-277: nothing is sent when the list holds no unread notification
MarkAllAsRead ==
    /\ unread(notifications) > 0
    /\ ReadRequested(TRUE, {notifications[i].id :
                              i \in {j \in 1..Len(notifications) : ~notifications[j].read}})

\* lines 244-255 and 279-288: the update of call m answers
ReadReturns(m) ==
    /\ reads[m].pc = "pending"
    /\ reads' = [reads EXCEPT ![m].pc = "done"]
    /\ IF ~reads[m].all
       THEN /\ notifications' =
                  [i \in 1..Len(notifications) |->
                      IF notifications[i].id \in reads[m].ids
                      THEN [notifications[i] EXCEPT !.read = TRUE]
                      ELSE notifications[i]]
            /\ unreadCount' = Max(0, unreadCount - 1)
       ELSE /\ notifications' =
                  [i \in 1..Len(notifications) |-> [notifications[i] EXCEPT !.read = TRUE]]
            /\ unreadCount' = 0
    /\ UNCHANGED <<page, hasMore, ntLoading, fetches, deliveries>>
    /\ UNCHANGED <<aggVars, snVars, scVars, appVars, hlVars>>
    /\ UNCHANGED <<srVars, dbVars, fbVars, usVars>>

NtNext ==
    \/ \E refresh \in BOOLEAN : FetchNotifications(refresh)
    \/ \E f \in 1..Len(fetches), fails \in BOOLEAN : FetchReturns(f, fails)
    \/ \E kind \in InsertKinds : RowInserted(kind)
    \/ \E d \in deliveries : UserChannelReceives(d)
    \/ \E d \in deliveries : SystemChannelReceives(d)
    \/ \E id \in Pressed(notifications) : MarkAsRead(id)
    \/ MarkAllAsRead
    \/ \E m \in 1..Len(reads) : ReadReturns(m)

NotificationsSpec == NtInit /\ [][NtNext]_vars

(***************************************************************************)
(* Properties of the snippet builder (SnippetSpec).                        *)
(***************************************************************************)
snBuilt == snPc = "built"
snLineNumbers == snResult.lineNumbers
\* the lines of the snippet as a reader of the result sees them
snSnippetLines == SplitNL(snResult.snippet)

Positions(seq, v) == {p \in 1..Len(seq) : seq[p] = v}

\* the -1 entries that lie between the entries of line numbers a and b
SentinelsBetween(ln, a, b) ==
    {p \in Positions(ln, -1) :
        \E pa \in Positions(ln, a), pb \in Positions(ln, b) : pa < p /\ p < pb}

ConsecutiveMatches ==
    {<<snMatches[i], snMatches[i + 1]>> : i \in 1..(Len(snMatches) - 1)}

\* C6, as claimed: two consecutive matching lines at index difference >= 5
\* have exactly one -1 entry of lineNumbers between their context windows.
C6_SentinelFromFiveApart ==
    snBuilt =>
        \A pr \in ConsecutiveMatches :
            pr[2] - pr[1] >= 5 =>
                Cardinality(SentinelsBetween(snLineNumbers, pr[1] + 1, pr[2] + 1)) = 1

\* C6, amended: two consecutive matching lines at index difference >= 6 have
\* exactly one -1 entry between their context windows: the entry right after
\* the last line of the first window and right before the first line of the
\* second.
C6_SentinelFromSixApart ==
    snBuilt =>
        \A pr \in ConsecutiveMatches :
            pr[2] - pr[1] >= 6 =>
                /\ Cardinality(SentinelsBetween(snLineNumbers, pr[1] + 1, pr[2] + 1)) = 1
                /\ \E p \in 1..(Len(snLineNumbers) - 2) :
                      /\ snLineNumbers[p] = pr[1] + contextSize + 1
                      /\ snLineNumbers[p + 1] = -1
                      /\ snLineNumbers[p + 2] = pr[2] - contextSize + 1

C6_Witness ==
    /\ snBuilt
    /\ \E pr \in ConsecutiveMatches : pr[2] - pr[1] >= 6
    /\ \E pr \in ConsecutiveMatches : pr[2] - pr[1] < 5

\* the matches with no other match within 4 lines
IsolatedMatches ==
    {snMatches[i] : i \in {j \in 1..Len(snMatches) :
        \A k \in 1..Len(snMatches) :
            k # j => (snMatches[k] - snMatches[j] > 4 \/ snMatches[j] - snMatches[k] > 4)}}

WindowLo(k) == Max(0, k - 2)
WindowHi(k) == Min(Len(snLines) - 1, k + 2)

\* C7: for a match at 0-based line k with no other match within 4 lines, the
\* snippet holds the source lines max(0,k-2)..min(N-1,k+2) once each, in
\* order and side by side, source line i under the lineNumbers entry i+1;
\* when k is the only match these lines are the whole snippet.
C7_IsolatedMatchWindow ==
    snBuilt =>
        \A k \in IsolatedMatches :
            /\ \E p \in 1..Len(snLineNumbers) :
                  \A i \in WindowLo(k)..WindowHi(k) :
                      LET q == p + (i - WindowLo(k)) IN
                      /\ q <= Len(snLineNumbers)
                      /\ q <= Len(snSnippetLines)
                      /\ snLineNumbers[q] = i + 1
                      /\ snSnippetLines[q] = snLines[i + 1]
            /\ \A i \in WindowLo(k)..WindowHi(k) :
                  Cardinality(Positions(snLineNumbers, i + 1)) = 1
            /\ Len(snMatches) = 1 =>
                  /\ Len(snLineNumbers) = WindowHi(k) - WindowLo(k) + 1
                  /\ Len(snSnippetLines) = WindowHi(k) - WindowLo(k) + 1

C7_Witness ==
    /\ snBuilt
    /\ Len(snMatches) >= 2
    /\ \E k \in IsolatedMatches : k < 2
    /\ \E k \in IsolatedMatches : k > 2 /\ k + 2 > Len(snLines) - 1

\* C8: two matching lines at most 4 lines apart (their +/-2 windows overlap)
\* have no -1 entry between them, and no source line is emitted twice.
C8_OverlappingWindowsMerge ==
    snBuilt /\ Len(snMatches) > 0 =>
        /\ \A i, j \in 1..Len(snMatches) :
              (snMatches[i] < snMatches[j] /\ snMatches[j] - snMatches[i] <= 4) =>
                  /\ SentinelsBetween(snLineNumbers, snMatches[i] + 1, snMatches[j] + 1) = {}
                  /\ Positions(snLineNumbers, snMatches[i] + 1) # {}
                  /\ Positions(snLineNumbers, snMatches[j] + 1) # {}
        /\ \A n \in 1..Len(snLines) : Cardinality(Positions(snLineNumbers, n)) <= 1

C8_Witness ==
    /\ snBuilt
    /\ snQuery = QueryAbc
    /\ \E i, j \in 1..Len(snMatches) : snMatches[j] - snMatches[i] = 2
    /\ \E i, j \in 1..Len(snMatches) : snMatches[j] - snMatches[i] = 4
    /\ -1 \in {snLineNumbers[p] : p \in 1..Len(snLineNumbers)}

\* C9, as claimed: lineNumbers has as many entries as the snippet has lines.
C9_LineNumbersMatchSnippet ==
    snBuilt => Len(snLineNumbers) = Len(snSnippetLines)

\* the terms of the claim: whitespace-split tokens longer than 2 characters
ClaimTerms(query) ==
    {t \in {SplitWS(trim(query))[i] : i \in 1..Len(SplitWS(trim(query)))} : Len(t) > 2}

LineContainsTerm(line, query) ==
    \E t \in ClaimTerms(query) : includes(toLowerCase(line), toLowerCase(t))

\* the 0-based indices of the lines that contain a term, ascending
RECURSIVE TermLinesFrom(_, _, _)
TermLinesFrom(query, lines, index) ==
    IF index >= Len(lines) THEN <<>>
    ELSE IF LineContainsTerm(lines[index + 1], query)
    THEN <<index>> \o TermLinesFrom(query, lines, index + 1)
    ELSE TermLinesFrom(query, lines, index + 1)

\* C10, as claimed: when no line contains a query term (in particular when
\* the query has no token longer than 2 characters) the snippet is the first
\* 10 lines of the file without a -1 entry; otherwise it is the match-window
\* snippet of the lines that contain a term.
C10_FallbackWhenNoTermMatches ==
    snBuilt =>
        IF \A i \in 1..Len(snLines) : ~LineContainsTerm(snLines[i], snQuery)
        THEN /\ snResult.snippet = Join(SubSeq(snLines, 1, Min(10, Len(snLines))), <<"\n">>)
             /\ Positions(snLineNumbers, -1) = {}
        ELSE snResult = windowSnippet(snLines, TermLinesFrom(snQuery, snLines, 0))

(***************************************************************************)
(* Properties of fetchSearchResults (Spec).                                *)
(***************************************************************************)
Done == pc \in {"resolved", "rejected"}
RepoCount == Len(repoSearch.value)
CodeCount == Len(codeSearch.value)
Ids(results) == [i \in 1..Len(results) |-> results[i].id]

\* C1, as claimed: for a non-empty query, when the repository search or the
\* code search answered with at least one item, fetchSearchResults resolves
\* with a non-empty sequence.
C1_ResolvesWhenAnUpstreamHasItems ==
    (Done /\ aggQuery # <<>> /\ (RepoCount >= 1 \/ Len(codeItems) >= 1)) =>
        (pc = "resolved" /\ Len(outcome.value) >= 1)

\* the message the claim describes for the searches that failed
ExpectedRejection ==
    IF repoSearch.state = "rejected" /\ codeSearch.state = "rejected"
    THEN <<"Search failed: ", "Repository search: ">> \o repoSearch.reason
         \o <<"; ", "Code search: ">> \o codeSearch.reason
    ELSE IF repoSearch.state = "rejected"
    THEN <<"Search failed: ", "Repository search: ">> \o repoSearch.reason
    ELSE IF codeSearch.state = "rejected"
    THEN <<"Search failed: ", "Code search: ">> \o codeSearch.reason
    ELSE <<"No results found for your search query. Try different search terms.">>

\* a search that failed, or answered with zero items
FailedOrEmpty(search, items) ==
    search.state = "rejected" \/ (search.state = "fulfilled" /\ Len(items) = 0)

\* C2: when each search either failed or answered with zero items,
\* fetchSearchResults rejects: with 'Search failed: ' and the message of each
\* failed search when one failed, with the no-results message otherwise.
C2_RejectsWhenNothingUsable ==
    (pc \in {"resolved", "rejected"} /\ trim(aggQuery) # <<>>
     /\ FailedOrEmpty(repoSearch, repoSearch.value)
     /\ FailedOrEmpty(codeSearch, codeItems)) =>
        /\ pc = "rejected"
        /\ outcome.message = ExpectedRejection
        /\ repoSearch.state = "rejected" => repoSearch.reason # <<>>
        /\ codeSearch.state = "rejected" => codeSearch.reason # <<>>

C2_Witness ==
    /\ pc = "rejected"
    /\ repoSearch.state = "rejected"
    /\ codeSearch.state = "rejected"
    /\ repoSearch.reason # codeSearch.reason

\* C3, as claimed: when exactly one search is rejected and the other yields
\* at least one result, fetchSearchResults resolves with exactly the items
\* of the successful search, each with a score.
C3_OneRejectionIsNotSurfaced ==
    (Done /\ ((repoSearch.state = "rejected" /\ CodeCount >= 1)
              \/ (codeSearch.state = "rejected" /\ RepoCount >= 1))) =>
        /\ pc = "resolved"
        /\ Ids(outcome.value) = Ids(repoSearch.value \o codeSearch.value)
        /\ \A i \in 1..Len(outcome.value) : IsVal(outcome.value[i].score)

MetaFields == {"stars", "forks", "watchers", "openIssues", "license", "topics"}

\* C4: in the output, a code result whose source is the source of a fetched
\* repository result carries that result's stars, forks, watchers,
\* openIssues, license and topics; any other code result carries the values
\* the code search gave it.
C4_Enrichment ==
    pc = "resolved" =>
        \A i \in 1..Len(outcome.value) :
            LET r == outcome.value[i]
                repos == {k \in 1..RepoCount : repoSearch.value[k].source = r.source}
            IN  r.type = "code" =>
                    /\ \A k \in repos : \A f \in MetaFields : r[f] = repoSearch.value[k][f]
                    /\ repos = {} =>
                          \E c \in 1..CodeCount :
                              /\ codeSearch.value[c].id = r.id
                              /\ \A f \in MetaFields : r[f] = codeSearch.value[c][f]

C4_Witness ==
    /\ pc = "resolved"
    /\ \E i, j \in 1..Len(outcome.value) :
          /\ outcome.value[i].type = "code"
          /\ outcome.value[j].type = "code"
          /\ \E k \in 1..RepoCount :
                /\ repoSearch.value[k].source = outcome.value[i].source
                /\ outcome.value[i].license = Null
                /\ outcome.value[i].forks = repoSearch.value[k].forks
          /\ \A k \in 1..RepoCount : repoSearch.value[k].source # outcome.value[j].source

\* C5: the output is the first min(3, R) repository results, then the C code
\* results, then the other repository results, each group in upstream order;
\* it has R + C entries and holds every fetched item once.
C5_MergeOrder ==
    pc = "resolved" =>
        /\ Ids(outcome.value) =
               Ids(SubSeq(repoSearch.value, 1, Min(3, RepoCount)))
               \o Ids(codeSearch.value)
               \o Ids(SubSeq(repoSearch.value, 4, RepoCount))
        /\ Len(outcome.value) = RepoCount + CodeCount
        /\ \A k \in 1..RepoCount :
              Cardinality(Positions(Ids(outcome.value), repoSearch.value[k].id)) = 1
        /\ \A c \in 1..CodeCount :
              Cardinality(Positions(Ids(outcome.value), codeSearch.value[c].id)) = 1

C5_Witness ==
    /\ pc = "resolved"
    /\ RepoCount >= 4
    /\ CodeCount >= 2
    /\ repoSearch.value[4].id = <<"repo-", "1">>
    /\ codeSearch.value[1].id = <<"2", "-", "s", "2">>

(***************************************************************************)
(* Properties of calculateCombinedScore (ScoreSpec).                       *)
(***************************************************************************)
scored == scPc = "scored"
WithoutStars(result) == [result EXCEPT !.stars = Undefined]

\* C11: of two results that differ in their stars only, scored against the
\* same query, the one with no more stars scores no higher, and the stars of
\* a result add at most 50 points to its score
C11_MonotoneInStars ==
    scored =>
        /\ scScore.threw = scScoreMore.threw
        /\ ~scScore.threw =>
              /\ scScore.score <= scScoreMore.score
              /\ scScore.score
                     - calculateCombinedScore(WithoutStars(scResult), scQuery).score
                 <= 50 * 100
              /\ scScoreMore.score
                     - calculateCombinedScore(WithoutStars(scResult), scQuery).score
                 <= 50 * 100

\* a result of 2400 stars and its twin of 7300 stars, 26 points apart
C11_Witness ==
    /\ scored
    /\ ~scScore.threw
    /\ scResult.stars = Val(2400)
    /\ scMore = 7300
    /\ scScoreMore.score - scScore.score = 26 * 100


\* the whitespace-separated terms of a query, in lower case
statedTerms(query) == SelectSeq(SplitWS(toLowerCase(query)), NotEmpty)

\* the number of occurrences of term in text from pos on, left to right
RECURSIVE Occurrences(_, _, _)
Occurrences(text, term, pos) ==
    IF pos + Len(term) - 1 > Len(text) THEN 0
    ELSE IF SubSeq(text, pos, pos + Len(term) - 1) = term
    THEN 1 + Occurrences(text, term, pos + Len(term))
    ELSE Occurrences(text, term, pos + 1)

LowerOf(x) == IF IsVal(x) THEN toLowerCase(ValOf(x)) ELSE <<>>

\* the points the specification gives for one term
statedTermScore(result, term) ==
    (IF includes(LowerOf(result.title), term)
     THEN 15 * 100 + (IF LowerOf(result.title) = term THEN 10 * 100 ELSE 0)
     ELSE 0)
    + (IF includes(LowerOf(result.description), term) THEN 5 * 100 ELSE 0)
    + Min(2 * Occurrences(LowerOf(result.snippet), term, 1), 20) * 100

\* the score the specification gives, in hundredths of a point
statedCombinedScore(result, query) ==
    LET terms == statedTerms(query)
        age == ValOf(result.timestamp)
    IN  Min(IF IsVal(result.stars) THEN ValOf(result.stars) ELSE 0, 50 * 100)
        + (IF result.type = "repository" THEN 10 * 100 ELSE 0)
        + (IF result.type = "code" /\ result.hasRepoData = Val(TRUE) THEN 5 * 100 ELSE 0)
        + SumSeq([i \in 1..Len(terms) |-> statedTermScore(result, terms[i])])
        + (IF age < 7 THEN 10 * 100 ELSE IF age < 30 THEN 5 * 100
           ELSE IF age < 90 THEN 2 * 100 ELSE 0)

\* C13: the score of a result is the sum of its stars, type, per-term title,
\* description and snippet points and its freshness bonus, for every query
\* fetchSearchResults accepts; it is not negative, and at least 10 for a
\* repository
C13_ScoreIsSumOfStatedParts ==
    scored =>
        /\ ~scScore.threw
        /\ scScore.score = statedCombinedScore(scResult, scQuery)
        /\ scScore.score >= 0
        /\ scResult.type = "repository" => scScore.score >= 10 * 100

(***************************************************************************)
(* Properties of the rendered list (DisplaySpec).                          *)
(***************************************************************************)
\* a field that is absent counts 0
Count(x) == IF IsVal(x) THEN ValOf(x) ELSE 0

\* the score the specification gives, in hundredths of a point
statedRepoScore(r) ==
    Max(0, Count(r.stars) * 300 + Count(r.forks) * 200 + Count(r.watchers) * 100
           - Min(Count(r.openIssues) * 10, 2000)
           + (IF IsVal(r.timestamp) THEN Max(0, 5000 - ValOf(r.timestamp) * 50) ELSE 0))

\* C12: the score of every card is not negative and is
\* max(0, stars*3 + forks*2 + watchers - min(openIssues/10, 20)
\*        + max(0, 50 - ageInDays/2)), absent fields adding nothing
C12_RepoScoreClamped ==
    \A i \in 1..Len(displayed) :
        /\ displayed[i].score >= 0
        /\ displayed[i].score = statedRepoScore(displayed[i].result)

\* a card whose sum is negative (300 open issues, updated 400 days ago) and
\* whose score is 0
C12_Witness ==
    \E i \in 1..Len(displayed) :
        /\ displayed[i].result.openIssues = Val(300)
        /\ displayed[i].result.timestamp = Val(400)
        /\ ~TruthyNumber(displayed[i].result.stars)
        /\ displayed[i].score = 0


IndexOf(seq, v) == CHOOSE i \in 1..Len(seq) : seq[i] = v
Elements(seq) == {seq[i] : i \in 1..Len(seq)}

\* C20: a render shows the results that pass the filters, by descending
\* calculateRepoScore, results of equal score in the order of the merged
\* list, and leaves the array held by the results state as it was
C20_SortedCopyShown ==
    [][Render =>
        LET merged == arrays[appResults]
            shown == arrays'[listResults']
        IN  /\ arrays'[appResults'] = merged
            /\ Len(displayed') = Len(shown)
            /\ \A i \in 1..Len(shown) : displayed'[i] = card(shown[i])
            /\ Elements(shown) = {r \in Elements(merged) : keepsResult(filters, r)}
            /\ Len(shown) = Cardinality(Elements(shown))
            /\ \A i, j \in 1..Len(shown) :
                  i < j =>
                      /\ calculateRepoScore(shown[i]) >= calculateRepoScore(shown[j])
                      /\ calculateRepoScore(shown[i]) = calculateRepoScore(shown[j])
                            => IndexOf(merged, shown[i]) < IndexOf(merged, shown[j])
    ]_vars

\* the merged list 2, 4, 1 (scores 0, 54.5, 54.5) is shown as 4, 1, 2 and
\* is still 2, 4, 1 in the results state
C20_Witness ==
    /\ listResults # 0
    /\ [i \in 1..Len(arrays[appResults]) |-> arrays[appResults][i].id] = <<2, 4, 1>>
    /\ [i \in 1..Len(displayed) |-> displayed[i].result.id] = <<4, 1, 2>>


(***************************************************************************)
(* Properties of the repository search request (RequestSpec).              *)
(***************************************************************************)
Searches == \E searchQuery \in RequestQueries : HandleSearch(searchQuery)

\* the dates of the pushed:> qualifiers of a q parameter
PushedDates(q) == {q[i].value : i \in {j \in 1..Len(q) : q[j].prefix = " pushed:>"}}

\* the days of lookback the specification gives a time filter
statedLookback(time) ==
    CASE time = "day" -> 1
      [] time = "week" -> 7
      [] time = "month" -> 30
      [] time = "year" -> 365
      [] OTHER -> 0

\* C14: a search under the time filter day, week, month or year sends a q
\* with a pushed:> date 1, 7, 30 or 365 days before today; under the time
\* filter all, q holds no pushed: qualifier
C14_PushedDateFromTimeFilter ==
    [][Searches =>
        PushedDates(request'.q) =
            IF filters.time = "all" THEN {}
            ELSE {today - statedLookback(filters.time)}
    ]_vars

\* C15: a search sends sort=updated under the sort filter recent, sort=score
\* under relevance and sort=stars under any other, always with order=desc
C15_SortFromSortFilter ==
    [][Searches =>
        /\ request'.order = "desc"
        /\ request'.sort = CASE filters.sort = "recent" -> "updated"
                             [] filters.sort = "relevance" -> "score"
                             [] OTHER -> "stars"
    ]_vars


(***************************************************************************)
(* Properties of the highlight engine (HighlightSpec).                     *)
(***************************************************************************)
hlRendered == hlPc = "rendered"
hlLines == SplitNL(hlSnippet.snippet)
hlSearchRegex == createSearchRegex(hlQuery, hlOptions)

\* the lines that are no separator and hold a match of the search regex
MatchingLines ==
    LET lines == hlLines
        searchRegex == hlSearchRegex
    IN  {idx \in 1..Len(lines) :
            /\ hlSnippet.lineNumbers[idx] # -1
            /\ searchRegex.matcher
            /\ test(searchRegex.re, lines[idx])}
HighlightedRows == {k \in 1..Len(hlRows) : hlRows[k].highlighted}

\* C16: the count of the footer is the number of lines, separators aside,
\* that hold a match of the search regex, and so the number of rows
\* rendered as highlighted
C16_CountIsMatchingLines ==
    hlRendered =>
        /\ hlCount = Cardinality(MatchingLines)
        /\ hlCount = Cardinality(HighlightedRows)


SeparatorLines == {idx \in 1..Len(hlSnippet.lineNumbers) : hlSnippet.lineNumbers[idx] = -1}
RowIdxs == {hlRows[k].idx : k \in 1..Len(hlRows)}

\* C17: with highlightMatchesOnly on, the rows rendered are the matching
\* lines and every separator, in the order of the snippet; with it off,
\* every line; a row is highlighted exactly when its line matches; no
\* separator is highlighted or counted; of five lines of which only the
\* third matches, one line is rendered and the count is 1
C17_MatchesOnlyRendering ==
    hlRendered =>
        LET matching == MatchingLines
            separators == SeparatorLines
        IN  /\ \A k \in 1..(Len(hlRows) - 1) : hlRows[k].idx < hlRows[k + 1].idx
            /\ RowIdxs = IF hlOptions.highlightMatchesOnly
                         THEN matching \cup separators
                         ELSE 1..Len(hlSnippet.lineNumbers)
            /\ \A k \in 1..Len(hlRows) :
                  /\ (hlRows[k].kind = "separator") = (hlRows[k].idx \in separators)
                  /\ hlRows[k].highlighted = (hlRows[k].idx \in matching)
                  /\ (hlRows[k].marks # <<>>) = hlRows[k].highlighted
            /\ hlCount <= Cardinality(matching)
            /\ (Len(hlSnippet.lineNumbers) = 5 /\ matching = {3}
                /\ hlOptions.highlightMatchesOnly)
                  => /\ {k \in 1..Len(hlRows) : hlRows[k].kind = "line"} # {}
                     /\ \A k \in 1..Len(hlRows) :
                            hlRows[k].kind = "line" => hlRows[k].idx = 3
                     /\ hlCount = 1

\* five lines of which only the third holds c++: one row and a count of 1
C17_Witness ==
    /\ hlRendered
    /\ hlOptions.highlightMatchesOnly
    /\ hlQuery = QueryCpp
    /\ hlLines = <<LineConcatenate, LineConcatenate, LineCatCpp, LineConcatenate,
                   LineConcatenate>>
    /\ Len(hlRows) = 1
    /\ hlRows[1].idx = 3
    /\ hlRows[1].highlighted
    /\ hlCount = 1


\* a string as the matchCase option has it compared
Fold(text) == IF hlOptions.matchCase THEN text ELSE toLowerCase(text)

\* the texts a query stands for when it is no regular expression: its
\* whitespace-separated terms when there are several and whole words are
\* not asked for, else the query as typed
Literals ==
    LET terms == SelectSeq(SplitWS(hlQuery), NotEmpty)
    IN  IF ~hlOptions.matchWholeWord /\ Len(terms) > 1 THEN Elements(terms)
        ELSE {hlQuery}

\* the text of mark m of row k
Marked(k, m) ==
    SubSeq(hlLines[hlRows[k].idx], hlRows[k].marks[m][1], hlRows[k].marks[m][2] - 1)

\* C18: the render never fails; under useRegex, a query that is no regular
\* expression gives no regex, no highlighted row and a count of 0; without
\* useRegex every query that is not blank compiles, also when a special
\* character follows it, every mark spells the query (or one of its terms)
\* and, whole words aside, exactly the lines that hold it match
C18_InvalidRegexAndLiteral ==
    hlPc # "ready" =>
        /\ hlPc # "threw"
        /\ (hlOptions.useRegex /\ ~RegExp(hlQuery, FALSE).ok) =>
              /\ ~hlSearchRegex.matcher
              /\ HighlightedRows = {}
              /\ hlCount = 0
        /\ (~hlOptions.useRegex /\ trim(hlQuery) # <<>>) =>
              /\ hlSearchRegex.matcher
              /\ \A c \in RegexSpecial :
                    createSearchRegex(hlQuery \o <<c>>, hlOptions).matcher
              /\ \A k \in 1..Len(hlRows) : \A m \in 1..Len(hlRows[k].marks) :
                    Fold(Marked(k, m)) \in {Fold(t) : t \in Literals}
              /\ ~hlOptions.matchWholeWord =>
                    MatchingLines =
                        {idx \in 1..Len(hlLines) :
                            /\ hlSnippet.lineNumbers[idx] # -1
                            /\ \E t \in Literals : includes(Fold(hlLines[idx]), Fold(t))}

\* the query c++ under useRegex, over lines of which one holds c++: every
\* line is rendered, none highlighted, the count is 0
C18_Witness ==
    /\ hlRendered
    /\ hlOptions.useRegex
    /\ ~hlOptions.highlightMatchesOnly
    /\ hlQuery = QueryCpp
    /\ \E idx \in 1..Len(hlLines) : hlLines[idx] = LineCatCpp
    /\ Len(hlRows) = Len(hlLines)
    /\ HighlightedRows = {}
    /\ hlCount = 0


\* the query stands in line at position s between two word boundaries
DelimitedAt(line, s) ==
    /\ s + Len(hlQuery) - 1 <= Len(line)
    /\ Fold(SubSeq(line, s, s + Len(hlQuery) - 1)) = Fold(hlQuery)
    /\ AtWordBoundary(line, s)
    /\ AtWordBoundary(line, s + Len(hlQuery))
DelimitedStarts(line) == {s \in 1..Len(line) : DelimitedAt(line, s)}

\* C19: in whole-word mode every mark is an occurrence of the query between
\* two word boundaries, a line is highlighted exactly when it holds one, its
\* first one is marked, and "cat" over "concatenate cat" marks positions
\* 13-15 only; letters are compared as typed with matchCase on and without
\* regard to case with matchCase off
C19_WholeWordAndCase ==
    (hlRendered /\ ~hlOptions.useRegex /\ trim(hlQuery) # <<>>) =>
        /\ hlOptions.matchWholeWord =>
              /\ \A k \in 1..Len(hlRows) :
                    LET line == hlLines[hlRows[k].idx]
                        marks == hlRows[k].marks
                    IN  /\ \A m \in 1..Len(marks) :
                              /\ marks[m][1] \in DelimitedStarts(line)
                              /\ marks[m][2] = marks[m][1] + Len(hlQuery)
                        /\ hlRows[k].kind = "line" =>
                              /\ hlRows[k].highlighted = (DelimitedStarts(line) # {})
                              /\ hlRows[k].highlighted =>
                                    \A s \in DelimitedStarts(line) : marks[1][1] <= s
                        /\ (hlQuery = QueryCat /\ line = LineConcatenate) =>
                              marks = <<(<<13, 16>>)>>
              /\ MatchingLines =
                    {idx \in 1..Len(hlLines) :
                        /\ hlSnippet.lineNumbers[idx] # -1
                        /\ DelimitedStarts(hlLines[idx]) # {}}
        /\ ~hlOptions.matchWholeWord =>
              \A idx \in 1..Len(hlLines) :
                  hlSnippet.lineNumbers[idx] # -1 =>
                      /\ (hlOptions.matchCase /\ idx \in MatchingLines) =>
                            \E t \in Literals : includes(hlLines[idx], t)
                      /\ (~hlOptions.matchCase
                          /\ \E t \in Literals :
                                 includes(toLowerCase(hlLines[idx]), toLowerCase(t))) =>
                            idx \in MatchingLines

\* whole words, case ignored, query cat: the second cat of "concatenate cat"
\* and the Cat of "Cat c++" are marked
C19_Witness ==
    /\ hlRendered
    /\ ~hlOptions.useRegex
    /\ hlOptions.matchWholeWord
    /\ ~hlOptions.matchCase
    /\ hlQuery = QueryCat
    /\ Len(hlRows) = 2
    /\ hlLines[hlRows[1].idx] = LineConcatenate
    /\ hlRows[1].marks = <<(<<13, 16>>)>>
    /\ hlLines[hlRows[2].idx] = LineCatCpp
    /\ hlRows[2].marks = <<(<<1, 4>>)>>


(***************************************************************************)
(* Properties of the search flow (SearchSpec, HistorySpec).                *)
(***************************************************************************)
EmptyQueryMessage == <<"Search query cannot be empty">>

\* C21: fetchSearchResults called with an empty or whitespace-only query
\* rejects with 'Search query cannot be empty' and starts neither upstream
\* search; handleSearch called with such a query sets the error 'Please
\* enter a search query' and leaves results, loading and query as they were
C21_BlankQueryRefused ==
    [][/\ \A q \in AggQueries :
            FetchSearchResults(q) /\ trim(q) = <<>> =>
                /\ outcome' = Reject(EmptyQueryMessage)
                /\ repoSearch' = Idle
                /\ codeSearch' = Idle
                /\ codeSlots' = <<>>
       /\ \A searchQuery \in SearchQueries :
            SearchSubmitted(searchQuery) /\ trim(searchQuery) = <<>> =>
                /\ appError' = Val(PleaseEnterQuery)
                /\ UNCHANGED <<arrays, appResults, appLoading, appQuery>>
                /\ UNCHANGED <<calls, request>>
    ]_vars

\* a whitespace-only query was refused by fetchSearchResults, and a blank
\* one by handleSearch while results of an earlier search were on display
C21_Witness ==
    /\ pc = "rejected"
    /\ aggQuery = QueryBlank
    /\ appError = Val(PleaseEnterQuery)
    /\ arrays[appResults] # <<>>
    /\ appQuery # <<>>


\* the ids a search_history row of the signed-in user can carry: the Clerk
\* id, or the id of a users row of that Clerk id
UserIds(table) == {ClerkId} \cup {table[i].id : i \in ClerkRows(table, ClerkId)}

\* call c of handleSearch gets its saveSearchHistory call back
SaveEnds(c) == calls[c].pc = "saving" /\ calls'[c].pc = "done"

\* C22: when handleSearch ends a successful search of a signed-in user, the
\* search_history table holds a row of that user with the submitted query
C22_HistoryRowInserted ==
    [][\A c \in 1..Len(calls) :
        SaveEnds(c) /\ user # Null =>
            \E i \in 1..Len(searchHistory') :
                /\ searchHistory'[i].user_id \in UserIds(usersTable')
                /\ searchHistory'[i].query = Val(calls[c].searchQuery)
    ]_vars


\* the database as saveSearchHistory finds it
CurrentDb == Database(uniqueClerkId, usersTable, searchHistory, increments)

\* saveSearchHistory called with a Clerk id finds no user row, and its
\* insert of one is refused
UserCreationFails(db, userId, faults) ==
    /\ userId.type = "string"
    /\ startsWith(userId.value, ClerkPrefix)
    /\ faults.lookup # "throws"
    /\ faults.lookup = "error" \/ Cardinality(ClerkRows(db.users, userId.value)) # 1
    /\ \/ faults.createUser = "error"
       \/ db.unique /\ ClerkRows(db.users, userId.value) # {}

\* whatever its requests end with, saveSearchHistory does not reject, adds
\* no history row when the user creation failed, and calls
\* increment_search_count only behind a history row it inserted
SaveIsContained ==
    \A k \in 1..Len(SaveUserIds), faults \in SaveFaults :
        LET saved == saveSearchHistory(CurrentDb, SaveUserIds[k], Val(QueryGo), faults)
        IN  /\ ~saved.rejected
            /\ UserCreationFails(CurrentDb, SaveUserIds[k], faults) =>
                   saved.db.history = searchHistory
            /\ saved.db.increments # increments =>
                   /\ faults.insertHistory = "ok"
                   /\ Len(saved.db.history) = Len(searchHistory) + 1
                   /\ saved.db.increments =
                          Append(increments, saved.db.history[Len(saved.db.history)].user_id)

\* C23: saving the history cannot fail the search: saveSearchHistory never
\* rejects, and when handleSearch gets its call back the fetched results are
\* still displayed, the error is as it was and loading is false; no history
\* row is inserted when creating the missing user failed, and
\* increment_search_count is called only after a history row was inserted
C23_SaveCannotFailSearch ==
    /\ []SaveIsContained
    /\ [][\A c \in 1..Len(calls) :
            SaveEnds(c) =>
                /\ arrays'[appResults'] = arrays[appResults]
                /\ appError' = appError
                /\ appLoading' = FALSE
       ]_vars

\* a signed-in user's search ended with its results displayed, the users
\* table refuses a second row of the user, and a history row was inserted
C23_Witness ==
    /\ user # Null
    /\ \E c \in 1..Len(calls) : calls[c].pc = "done"
    /\ arrays[appResults] = found(QueryAbc)
    /\ uniqueClerkId
    /\ usersTable = <<UserRow>>
    /\ Len(searchHistory) = 1
    /\ increments = <<Uuid(1)>>
    /\ UserCreationFails(CurrentDb, Str(ClerkId),
                         [lookup |-> "error", createUser |-> "ok",
                          insertHistory |-> "ok", rpc |-> "ok"])


\* call c of handleSearch gets the answer of fetchSearchResults
FetchEnds(c) == calls[c].pc = "fetching" /\ calls'[c].pc # "fetching"

\* C24: stale responses are not suppressed: whenever the fetch of a call
\* ends, the results displayed become those of that call (none when it
\* failed) and the query text stays, whether or not a later search was
\* submitted meanwhile; the response that arrives last wins
C24_LastResponseWins ==
    [][\A c \in 1..Len(calls) :
        FetchEnds(c) =>
            /\ arrays'[appResults'] \in {found(calls[c].searchQuery), <<>>}
            /\ appQuery' = appQuery
            /\ appQuery = calls[Len(calls)].searchQuery
    ]_vars

\* two searches ended; the query text is that of the second, the results
\* displayed are those of the first
C24_Witness ==
    /\ Len(calls) = 2
    /\ \A c \in 1..2 : calls[c].pc = "done"
    /\ calls[1].searchQuery = QueryAbc
    /\ calls[2].searchQuery = QueryGo
    /\ appQuery = QueryGo
    /\ arrays[appResults] = found(QueryAbc)

\* C26: loading is true while a search started by handleSearch is in
\* flight, and false once every call of handleSearch has ended
C26_LoadingWhileInFlight ==
    /\ (\E c \in 1..Len(calls) : calls[c].pc = "fetching") => appLoading
    /\ (\A c \in 1..Len(calls) : calls[c].pc = "done") => ~appLoading


(***************************************************************************)
(* Properties of the feedback service (FeedbackSpec).                      *)
(***************************************************************************)
\* C25: updateFeedbackStatus and deleteFeedback called with isAdmin false
\* reject with a 'Permission denied' error, send no request to the database
\* and leave every feedback row as it was
C25_NonAdminDenied ==
    [][/\ \A id \in FeedbackIds, status \in FeedbackStatuses, fails \in BOOLEAN :
            UpdateFeedbackStatus(id, status, FALSE, fails) =>
                /\ fbOutcome' = Reject(UpdateDenied)
                /\ fbRequests' = fbRequests
                /\ feedbackTable' = feedbackTable
       /\ \A id \in FeedbackIds, fails \in BOOLEAN :
            DeleteFeedback(id, FALSE, fails) =>
                /\ fbOutcome' = Reject(DeleteDenied)
                /\ fbRequests' = fbRequests
                /\ feedbackTable' = feedbackTable
    ]_vars

\* a delete was denied after an admin had resolved one row of the table
\* and deleted another
C25_Witness ==
    /\ fbOutcome = Reject(DeleteDenied)
    /\ fbRequests = 2
    /\ Len(feedbackTable) = MaxFeedback - 1
    /\ \E i \in 1..Len(feedbackTable) : feedbackTable[i].status = "resolved"


(***************************************************************************)
(* Properties of the first load of a new user (UserSyncSpec).              *)
(***************************************************************************)
WelcomeRows == {i \in 1..Len(notifTable) : notifTable[i].title = WelcomeTitle}
RunsOf(path) == {r \in 1..Len(runs) : runs[r].path = path}

\* C29: once the effects of useUserSync and of Notifications have run to
\* their end for a user who signed in for the first time, the users table
\* holds exactly one row of the user and the notifications table exactly
\* one welcome notification
C29_OneUserRowOneWelcome ==
    (/\ RunsOf("sync") # {}
     /\ RunsOf("ensure") # {}
     /\ \A r \in 1..Len(runs) : runs[r].pc = "done")
    => /\ Cardinality(ClerkRows(usersTable, ClerkId)) = 1
       /\ Cardinality(WelcomeRows) = 1


(***************************************************************************)
(* Properties of the Notifications component (NotificationsSpec).          *)
(***************************************************************************)
\* C27: after any sequence of refresh, load more, realtime INSERT events of
\* either channel, markAsRead and markAllAsRead, unreadCount is the number
\* of notifications of the list whose read flag is false
C27_UnreadCountMatchesList == unreadCount = unread(notifications)

\* C28: no notification id appears twice in the list, whether its entries
\* come from a refresh, from Load more or from the realtime channels
C28_NoNotificationTwice ==
    \A i, j \in 1..Len(notifications) :
        i # j => notifications[i].id # notifications[j].id


(***************************************************************************)
(* Shape of the match-window snippet (SnippetSpec).                        *)
(***************************************************************************)
\* the positions of lineNumbers that stand for a line of the file
LinePositions(ln) == {p \in 1..Len(ln) : ln[p] # -1}

\* C30: in a snippet built by the match-window path (some line matched) the
\* entries of lineNumbers other than -1 are strictly increasing and lie in
\* 1..N for a file of N lines; lineNumbers neither starts nor ends with -1
\* and has no two -1 entries side by side; the snippet line under a -1 entry
\* is '...'; and every matching line is in the snippet under its number.
C30_WindowSnippetWellFormed ==
    (snBuilt /\ Len(snMatches) > 0) =>
        LET ln == snLineNumbers
            sl == snSnippetLines
        IN  /\ \A p \in LinePositions(ln) : ln[p] \in 1..Len(snLines)
            /\ \A p, q \in LinePositions(ln) : p < q => ln[p] < ln[q]
            /\ Len(ln) > 0
            /\ ln[1] # -1
            /\ ln[Len(ln)] # -1
            /\ \A p \in 1..(Len(ln) - 1) : ~(ln[p] = -1 /\ ln[p + 1] = -1)
            /\ \A p \in Positions(ln, -1) : p <= Len(sl) /\ sl[p] = Separator
            /\ \A i \in 1..Len(snMatches) :
                  \E p \in Positions(ln, snMatches[i] + 1) :
                      p <= Len(sl) /\ sl[p] = snLines[snMatches[i] + 1]

\* a file with a merged pair of windows, a separated pair, and a window cut
\* short by the end of the file
C30_Witness ==
    /\ snBuilt
    /\ Len(snMatches) >= 3
    /\ Positions(snLineNumbers, -1) # {}
    /\ \E pr \in ConsecutiveMatches : pr[2] - pr[1] <= 4
    /\ snMatches[Len(snMatches)] + contextSize > Len(snLines) - 1

====
